---- MODULE Spec2Model ----
(***************************************************************************)
(* A model of build_music_site.py (class MusicSiteBuilder): the record     *)
(* normaliser (parse_timestamp, parse_album_artist, the two embed-URL      *)
(* derivations, fetch_music_data), the classifier/sorter                   *)
(* (categorize_albums) and the section renderer.                           *)
(*                                                                         *)
(* A Python str is a sequence of characters.  A character is a TLA+ string *)
(* of length one; a literal the code tests or inserts as a whole           *)
(* ("music.apple.com", a calendar date, a clock time, ...) is one element  *)
(* of the sequence, so that the inputs can be enumerated.  The en dash     *)
(* U+2013 is written EnDash.                                               *)
(***************************************************************************)
EXTENDS Integers, Sequences, FiniteSets, TLC

VARIABLES
    arg,          \* the argument of the pure function under check
    outcome,      \* "none" before the call, then "returned" or "raised"
    ret,          \* the value returned, <<>> before the call
    sheet,        \* the worksheet: the rows sheet.get_all_records() returns
    pc,           \* the position of run() in its pipeline
    music_data,   \* the list fetch_music_data returned
    categorized,  \* the dict categorize_albums returned
    page,         \* what generate_html rendered
    credentials_exists,  \* self.credentials_path.exists()
    output_dir,   \* the build folder self.output_dir and its files
    wall_clock,   \* the time datetime.now() last returned
    proc,         \* the state of each invocation of run()
    document,     \* the collapsible sections of the page in the browser
    localStorage, \* the value stored under 'section-<id>', per section id
    timers,       \* the sections whose setTimeout callback is pending
    visit,        \* what has happened in this visit of the page
    library_export,  \* get_library_music() of test-music-api.py
    sheet_update     \* update_music_sheet() and its worksheet

Browser == <<document, localStorage, timers, visit>>
Scripts == <<library_export, sheet_update>>

vars == <<arg, outcome, ret, sheet, pc, music_data, categorized, page,
          credentials_exists, output_dir, wall_clock, proc, Browser, Scripts>>

\* An optional value (None or a value) is a sequence of length zero or one.
None == <<>>
Some(v) == <<v>>

(***************************************************************************)
(* str methods                                                             *)
(***************************************************************************)
EnDash == "u2013"

Whitespace == {" "}

RECURSIVE LStrip(_)
LStrip(s) ==
    IF s # <<>> /\ Head(s) \in Whitespace THEN LStrip(Tail(s)) ELSE s

RECURSIVE RStrip(_)
RStrip(s) ==
    IF s # <<>> /\ s[Len(s)] \in Whitespace
    THEN RStrip(SubSeq(s, 1, Len(s) - 1))
    ELSE s

\* str.strip()
Strip(s) == RStrip(LStrip(s))

\* the positions at which sub occurs in s
Occurrences(s, sub) ==
    {i \in 1..(Len(s) - Len(sub) + 1) : SubSeq(s, i, i + Len(sub) - 1) = sub}

\* sub in s
Contains(s, sub) == Occurrences(s, sub) # {}

\* str.startswith / str.endswith
StartsWith(s, p) == Len(s) >= Len(p) /\ SubSeq(s, 1, Len(p)) = p
EndsWith(s, p) ==
    Len(s) >= Len(p) /\ SubSeq(s, Len(s) - Len(p) + 1, Len(s)) = p

Min(a, b) == IF a < b THEN a ELSE b
SetMax(S) == CHOOSE m \in S : \A x \in S : x <= m
SetMin(S) == CHOOSE m \in S : \A x \in S : m <= x

\* str.rsplit(sep, 1) of a string that contains sep: the split is at the
\* rightmost occurrence
RSplit1(s, sep) ==
    LET i == SetMax(Occurrences(s, sep))
    IN  <<SubSeq(s, 1, i - 1), SubSeq(s, i + Len(sep), Len(s))>>

\* str.replace(old, new): every occurrence, left to right, not overlapping
RECURSIVE Replace(_, _, _)
Replace(s, old, new) ==
    IF s = <<>> THEN <<>>
    ELSE IF StartsWith(s, old)
         THEN new \o Replace(SubSeq(s, Len(old) + 1, Len(s)), old, new)
         ELSE <<Head(s)>> \o Replace(Tail(s), old, new)

\* str.split(c) for a one-character separator: the list of segments
RECURSIVE Split(_, _)
Split(s, c) ==
    IF ~ Contains(s, <<c>>) THEN <<s>>
    ELSE LET i == SetMin(Occurrences(s, <<c>>))
         IN  <<SubSeq(s, 1, i - 1)>> \o Split(SubSeq(s, i + 1, Len(s)), c)

UpperCase == {"C", "U", "R", "E", "N", "T", "O", "P", "A", "I", "V", "D"}
LowerOf ==
    [c \in UpperCase |->
        CASE c = "C" -> "c" [] c = "U" -> "u" [] c = "R" -> "r"
          [] c = "E" -> "e" [] c = "N" -> "n" [] c = "T" -> "t"
          [] c = "O" -> "o" [] c = "P" -> "p" [] c = "A" -> "a"
          [] c = "I" -> "i" [] c = "V" -> "v" [] c = "D" -> "d"]

\* str.lower()
Lower(s) == [i \in 1..Len(s) |-> IF s[i] \in UpperCase THEN LowerOf[s[i]] ELSE s[i]]

\* all sequences over S of length at most n
RECURSIVE SeqsUpTo(_, _)
SeqsUpTo(S, n) ==
    IF n = 0 THEN {<<>>}
    ELSE LET shorter == SeqsUpTo(S, n - 1)
         IN  shorter \cup {Append(s, c) : s \in {t \in shorter : Len(t) = n - 1}, c \in S}

(***************************************************************************)
(* parse_album_artist                                                      *)
(***************************************************************************)
EnDashSep == <<" ", EnDash, " ">>
HyphenSep == <<" ", "-", " ">>
UnknownArtist == <<"Unknown Artist">>

\* a plausible slip: the hyphen is looked for first
parse_album_artist_hyphen_first(music_entry) ==
    IF Contains(music_entry, HyphenSep)
    THEN LET parts == RSplit1(music_entry, HyphenSep)
         IN  <<Strip(parts[1]), Strip(parts[2])>>
    ELSE IF Contains(music_entry, EnDashSep)
    THEN LET parts == RSplit1(music_entry, EnDashSep)
         IN  <<Strip(parts[1]), Strip(parts[2])>>
    ELSE <<Strip(music_entry), UnknownArtist>>

\* a plausible slip: the title is returned untrimmed when there is no separator
parse_album_artist_untrimmed(music_entry) ==
    IF Contains(music_entry, EnDashSep)
    THEN LET parts == RSplit1(music_entry, EnDashSep)
         IN  <<Strip(parts[1]), Strip(parts[2])>>
    ELSE IF Contains(music_entry, HyphenSep)
    THEN LET parts == RSplit1(music_entry, HyphenSep)
         IN  <<Strip(parts[1]), Strip(parts[2])>>
    ELSE <<music_entry, UnknownArtist>>

parse_album_artist(music_entry) ==
    IF Contains(music_entry, EnDashSep)
    THEN LET parts == RSplit1(music_entry, EnDashSep)
         IN  <<Strip(parts[1]), Strip(parts[2])>>
    ELSE IF Contains(music_entry, HyphenSep)
    THEN LET parts == RSplit1(music_entry, HyphenSep)
         IN  <<Strip(parts[1]), Strip(parts[2])>>
    ELSE <<Strip(music_entry), UnknownArtist>>

MaxTitleLen == 7
TitleChars == {"a", " ", "-", EnDash}

NoBuckets ==
    [current_listening |-> <<>>, recently_added |-> <<>>, recently_finished |-> <<>>]
NoSection == [section_id |-> "", count |-> None, empty_section |-> FALSE, cards |-> <<>>]
NoPage ==
    [badges |-> [current |-> 0, added |-> 0, finished |-> 0, total |-> 0],
     currently_listening |-> NoSection,
     recently_added |-> NoSection,
     recently_finished |-> NoSection]

\* a file of the build folder: absent, empty (opened for writing and
\* truncated), written, or torn (two writers' bytes overlaid); 'by' is the
\* invocation that opened or wrote it last, 0 an earlier build
NoFile == [state |-> "absent", text |-> <<>>, by |-> 0]
OutputFiles == <<"index.html", "styles.css", "scripts.js", "README.md">>
OutputFileSet == {OutputFiles[i] : i \in 1..Len(OutputFiles)}
NoDir == [exists |-> FALSE, assets |-> FALSE, files |-> [f \in OutputFileSet |-> NoFile]]

\* no page is open in a browser
NoBrowser ==
    /\ document = <<>>
    /\ localStorage = <<>>
    /\ timers = {}
    /\ visit = <<>>

\* none of the musickit scripts runs
NoScripts ==
    /\ library_export = <<>>
    /\ sheet_update = <<>>

\* no invocation of run() exists
NoBuild ==
    /\ credentials_exists = FALSE
    /\ output_dir = NoDir
    /\ wall_clock = 0
    /\ proc = <<>>

\* the pipeline of run() is not running
Idle ==
    /\ NoBuild
    /\ NoBrowser
    /\ NoScripts
    /\ sheet = <<>>
    /\ pc = "idle"
    /\ music_data = <<>>
    /\ categorized = NoBuckets
    /\ page = NoPage

InitParseAlbumArtist ==
    /\ arg \in SeqsUpTo(TitleChars, MaxTitleLen)
    /\ outcome = "none"
    /\ ret = <<>>
    /\ Idle

CallParseAlbumArtist ==
    /\ outcome = "none"
    /\ outcome' = "returned"
    /\ ret' = parse_album_artist(arg)
    /\ UNCHANGED <<arg, sheet, pc, music_data, categorized, page, credentials_exists, output_dir, wall_clock, proc, Browser, Scripts>>

SpecParseAlbumArtist == InitParseAlbumArtist /\ [][CallParseAlbumArtist]_vars

\* the split of s at position i of a separator of length three
SplitAt(s, i) == <<Strip(SubSeq(s, 1, i - 1)), Strip(SubSeq(s, i + 3, Len(s)))>>
SepAt(s, sep, i) == i + 2 <= Len(s) /\ SubSeq(s, i, i + 2) = sep
IsLastOccurrence(s, sep, i) ==
    SepAt(s, sep, i) /\ \A j \in (i + 1)..Len(s) : ~ SepAt(s, sep, j)

\* C6: parse_album_artist splits on the last " <en dash> " whenever the string
\* holds one, also when it holds " - " somewhere; only without any en-dash
\* separator does it split on the last " - "; both parts come back trimmed.
C6_EnDashBeforeHyphen ==
    outcome = "returned" =>
        /\ (\E i \in 1..Len(arg) : SepAt(arg, EnDashSep, i)) =>
               \E i \in 1..Len(arg) :
                   IsLastOccurrence(arg, EnDashSep, i) /\ ret = SplitAt(arg, i)
        /\ (/\ \A i \in 1..Len(arg) : ~ SepAt(arg, EnDashSep, i)
            /\ \E i \in 1..Len(arg) : SepAt(arg, HyphenSep, i)) =>
               \E i \in 1..Len(arg) :
                   IsLastOccurrence(arg, HyphenSep, i) /\ ret = SplitAt(arg, i)

\* an en-dash separator followed by a hyphen separator: the split is at the
\* en dash and the hyphen stays in the artist
C6_WitnessBoth ==
    /\ arg = <<"a", " ", EnDash, " ", "-", " ", "a">>
    /\ ret = <<(<<"a">>), <<"-", " ", "a">>>>

\* two hyphen separators: the split is at the last one ("Foo - Bar - Baz")
C6_WitnessLastHyphen ==
    /\ arg = <<"a", " ", "-", " ", "-", " ", "a">>
    /\ ret = <<(<<"a", " ", "-">>), <<"a">>>>

\* C7 as stated: without a separator the creator is the sentinel "Unknown"
C7_SentinelUnknown ==
    (/\ outcome = "returned"
     /\ \A i \in 1..Len(arg) :
            ~ SepAt(arg, EnDashSep, i) /\ ~ SepAt(arg, HyphenSep, i))
    => ret = <<Strip(arg), <<"Unknown">>>>

\* C7 (amended): for every title string with neither " <en dash> " nor " - ",
\* parse_album_artist returns the whole trimmed string as the title and the
\* fixed sentinel "Unknown Artist" as the creator.
C7_SentinelUnknownArtist ==
    (/\ outcome = "returned"
     /\ \A i \in 1..Len(arg) :
            ~ SepAt(arg, EnDashSep, i) /\ ~ SepAt(arg, HyphenSep, i))
    => ret = <<Strip(arg), <<"Unknown Artist">>>>

\* a title with surrounding blanks, a lone hyphen and no separator
C7_WitnessSolo ==
    /\ arg = <<" ", "a", "-", "a", " ">>
    /\ ret = <<(<<"a", "-", "a">>), <<"Unknown Artist">>>>

(***************************************************************************)
(* get_apple_embed_url                                                     *)
(***************************************************************************)
AppleHost == <<"music.apple.com">>
AppleOrigin == <<"https://">> \o AppleHost
AppleEmbedHost == <<"embed.", "music.apple.com">>

get_apple_embed_url(apple_link) ==
    IF apple_link = <<>> \/ ~ StartsWith(apple_link, AppleOrigin)
    THEN None
    ELSE Some(Replace(apple_link, AppleHost, AppleEmbedHost))

MaxAppleRest == 4
AppleRestChars == {"/", "a", "?", "music.apple.com"}
ApplePrefixes ==
    {<<>>, AppleOrigin, <<"http://">> \o AppleHost, <<"https://", "open.spotify.com">>}

InitAppleEmbed ==
    /\ arg \in {p \o r : p \in ApplePrefixes, r \in SeqsUpTo(AppleRestChars, MaxAppleRest)}
    /\ outcome = "none"
    /\ ret = <<>>
    /\ Idle

CallGetAppleEmbedUrl ==
    /\ outcome = "none"
    /\ outcome' = "returned"
    /\ ret' = get_apple_embed_url(arg)
    /\ UNCHANGED <<arg, sheet, pc, music_data, categorized, page, credentials_exists, output_dir, wall_clock, proc, Browser, Scripts>>

SpecAppleEmbed == InitAppleEmbed /\ [][CallGetAppleEmbedUrl]_vars

\* C10: get_apple_embed_url returns absent for every link that is empty or
\* does not start with "https://music.apple.com"; for every link that does,
\* the result is the link with its leading origin changed to
\* "https://embed.music.apple.com" and the rest of the URL left unchanged.
C10_OriginOnlyRewritten ==
    outcome = "returned" =>
        IF Len(arg) >= 2 /\ arg[1] = "https://" /\ arg[2] = "music.apple.com"
        THEN ret = Some(<<"https://", "embed.", "music.apple.com">>
                        \o [i \in 1..(Len(arg) - 2) |-> arg[i + 2]])
        ELSE ret = None

(***************************************************************************)
(* get_spotify_embed_url                                                   *)
(***************************************************************************)
SpotifyOrigin == <<"https:", "/", "/", "open.spotify.com">>
SpotifyEmbedPrefix == SpotifyOrigin \o <<"/", "embed", "/">>
UtmSuffix == <<"?", "utm_source=generator">>

\* a plausible slip: the query is not cut from the id
get_spotify_embed_url_query_kept(spotify_link) ==
    IF spotify_link = <<>> \/ ~ StartsWith(spotify_link, SpotifyOrigin)
    THEN None
    ELSE LET parts == Split(spotify_link, "/")
         IN  IF Len(parts) >= 5
             THEN Some(SpotifyEmbedPrefix \o parts[4] \o <<"/">> \o parts[5] \o UtmSuffix)
             ELSE None

\* The try/except of the code encloses only str.split and list indexing
\* guarded by the length test: nothing in it raises for a str argument.
get_spotify_embed_url(spotify_link) ==
    IF spotify_link = <<>> \/ ~ StartsWith(spotify_link, SpotifyOrigin)
    THEN None
    ELSE LET parts == Split(spotify_link, "/")
         IN  IF Len(parts) >= 5
             THEN LET content_type == parts[4]
                      content_id == Split(parts[5], "?")[1]
                  IN  Some(SpotifyEmbedPrefix \o content_type \o <<"/">>
                           \o content_id \o UtmSuffix)
             ELSE None

MaxSpotifyRest == 6
SpotifyRestChars == {"/", "a", "b", "?"}
SpotifyPrefixes ==
    {<<>>, SpotifyOrigin, <<"http:", "/", "/", "open.spotify.com">>,
     <<"https:", "/", "/", "music.apple.com">>}

InitSpotifyEmbed ==
    /\ arg \in {p \o r : p \in SpotifyPrefixes, r \in SeqsUpTo(SpotifyRestChars, MaxSpotifyRest)}
    /\ outcome = "none"
    /\ ret = <<>>
    /\ Idle

CallGetSpotifyEmbedUrl ==
    /\ outcome = "none"
    /\ outcome' = "returned"
    /\ ret' = get_spotify_embed_url(arg)
    /\ UNCHANGED <<arg, sheet, pc, music_data, categorized, page, credentials_exists, output_dir, wall_clock, proc, Browser, Scripts>>

SpecSpotifyEmbed == InitSpotifyEmbed /\ [][CallGetSpotifyEmbedUrl]_vars

\* the positions of the slashes of s, and its slash-delimited segments
Slashes(s) == {i \in 1..Len(s) : s[i] = "/"}
SlashBefore(s, k) ==
    IF k = 1 THEN 0
    ELSE CHOOSE i \in Slashes(s) : Cardinality({j \in Slashes(s) : j < i}) = k - 2
SlashAfter(s, k) ==
    IF Cardinality(Slashes(s)) < k THEN Len(s) + 1
    ELSE CHOOSE i \in Slashes(s) : Cardinality({j \in Slashes(s) : j < i}) = k - 1
\* the k-th segment, for k at most the number of segments
Segment(s, k) ==
    [i \in 1..(SlashAfter(s, k) - SlashBefore(s, k) - 1) |-> s[SlashBefore(s, k) + i]]
\* s up to its first question mark
BeforeQuery(s) ==
    IF \E i \in 1..Len(s) : s[i] = "?"
    THEN [i \in 1..((CHOOSE q \in 1..Len(s) : s[q] = "?" /\ \A j \in 1..(q - 1) : s[j] # "?") - 1)
             |-> s[i]]
    ELSE s
HasSpotifyOrigin(s) ==
    /\ Len(s) >= 4
    /\ s[1] = "https:" /\ s[2] = "/" /\ s[3] = "/" /\ s[4] = "open.spotify.com"
SpotifyEmbedOf(type, id) ==
    <<"https:", "/", "/", "open.spotify.com", "/", "embed", "/">> \o type
        \o <<"/">> \o id \o <<"?", "utm_source=generator">>
\* the result without "?utm_source=generator"
EmbedPath(r) == [i \in 1..(Len(r[1]) - 2) |-> r[1][i]]

\* the embed URL is absent or built from the 4th segment and the cut 5th one
C9_EmbedShape ==
    IF arg = <<>> \/ ~ HasSpotifyOrigin(arg) \/ Cardinality(Slashes(arg)) + 1 < 5
    THEN ret = None
    ELSE ret = Some(SpotifyEmbedOf(Segment(arg, 4), BeforeQuery(Segment(arg, 5))))

\* C9 as stated: never raises; absent for a link that is empty, of another
\* origin or of fewer than 5 segments; else embed/<4th segment>/<5th segment
\* cut at its first '?'>?utm_source=generator, so that the original query
\* string never appears in the result.
C9_QueryNeverInResult ==
    outcome # "none" =>
        /\ outcome = "returned"
        /\ C9_EmbedShape
        /\ ret # None => \A i \in 1..Len(EmbedPath(ret)) : EmbedPath(ret)[i] # "?"

\* C9 (amended): never raises; absent for a link that is empty, of another
\* origin or of fewer than 5 segments; else embed/<4th segment>/<5th segment
\* cut at its first '?'>?utm_source=generator, so that no query string
\* attached to the id appears in the result (a '?' inside the 4th segment
\* is kept as part of the type).
C9_QueryCutFromId ==
    outcome # "none" =>
        /\ outcome = "returned"
        /\ C9_EmbedShape
        /\ ret # None =>
               LET path == EmbedPath(ret)
                   last == SetMax(Slashes(path))
               IN  \A i \in (last + 1)..Len(path) : path[i] # "?"

\* ".../a/b?a" gives ".../embed/a/b?utm_source=generator"
C9_WitnessQueryCut ==
    /\ arg = SpotifyOrigin \o <<"/", "a", "/", "b", "?", "a">>
    /\ ret = Some(SpotifyEmbedPrefix \o <<"a", "/", "b">> \o UtmSuffix)

(***************************************************************************)
(* parse_timestamp                                                         *)
(*                                                                         *)
(* A calendar date "YYYY-MM-DD" and a clock time "HH:MM:SS" are one        *)
(* element each.  A datetime is [ord, aware]: ord counts half days, aware  *)
(* says whether it carries a UTC offset.                                   *)
(***************************************************************************)
DateTokens == <<"2024-03-01", "2024-03-02", "2024-03-03", "2024-03-04">>
Dates == {DateTokens[i] : i \in 1..Len(DateTokens)}
DayOf(d) == CHOOSE i \in 1..Len(DateTokens) : DateTokens[i] = d
Noon == "12:00:00"
UtcOffset == "+00:00"
\* the elements that are one character long
SingleChars == {"T", "Z", "X", " ", "q"}

Datetime(d, halfday, aware) == [ord |-> 2 * DayOf(d) + halfday, aware |-> aware]
Returned(v) == [raised |-> FALSE, value |-> v]
ValueError == [raised |-> TRUE, value |-> None]

\* datetime.fromisoformat (CPython): a date; or a date, any one character and
\* a time HH:MM[:SS] with an optional offset +HH:MM.  Before an offset the
\* time may be followed by one stray character, which is skipped.  The string
\* "+00:00" right after the date reads as the separator '+' and the time
\* "00:00".
datetime_fromisoformat(s) ==
    IF s = <<>> \/ Head(s) \notin Dates THEN ValueError
    ELSE IF Len(s) = 1 THEN Returned(Some(Datetime(s[1], 0, FALSE)))
    ELSE LET rest == SubSeq(s, 3, Len(s))
             n == Len(rest)
             offset == n >= 1 /\ rest[n] = UtcOffset
             \* the time string without its offset
             clock == IF offset THEN SubSeq(rest, 1, n - 1) ELSE rest
             stray == Len(clock) >= 1 /\ clock[Len(clock)] \in SingleChars
             \* ... and without the stray character an offset allows
             digits == IF offset /\ stray THEN SubSeq(clock, 1, Len(clock) - 1) ELSE clock
         IN  IF s[2] \in SingleChars
             THEN IF digits = <<Noon>>
                  THEN Returned(Some(Datetime(s[1], 1, offset)))
                  ELSE ValueError
             ELSE IF s[2] = UtcOffset
             THEN IF digits = <<>>
                  THEN Returned(Some(Datetime(s[1], 0, offset)))
                  ELSE ValueError
             ELSE ValueError

\* a plausible slip: no try/except around the parse
parse_timestamp_no_except(timestamp_str) ==
    IF \/ timestamp_str = <<>>
       \/ Contains(timestamp_str, <<"X", "X">>)
       \/ Strip(timestamp_str) = <<>>
    THEN Returned(None)
    ELSE IF EndsWith(timestamp_str, <<"Z">>)
         THEN datetime_fromisoformat(Replace(timestamp_str, <<"Z">>, <<UtcOffset>>))
         ELSE datetime_fromisoformat(timestamp_str)

parse_timestamp(timestamp_str) ==
    IF \/ timestamp_str = <<>>
       \/ Contains(timestamp_str, <<"X", "X">>)
       \/ Strip(timestamp_str) = <<>>
    THEN Returned(None)
    ELSE LET parsed ==
                 IF EndsWith(timestamp_str, <<"Z">>)
                 THEN datetime_fromisoformat(Replace(timestamp_str, <<"Z">>, <<UtcOffset>>))
                 ELSE datetime_fromisoformat(timestamp_str)
         IN  IF parsed.raised THEN Returned(None) ELSE parsed

MaxTimestampLen == 5
TimestampChars == {"2024-03-01", Noon, "T", "Z", "X", " "}

InitParseTimestamp ==
    /\ arg \in SeqsUpTo(TimestampChars, MaxTimestampLen)
    /\ outcome = "none"
    /\ ret = <<>>
    /\ Idle

CallParseTimestamp ==
    /\ outcome = "none"
    /\ LET r == parse_timestamp(arg)
       IN  /\ outcome' = IF r.raised THEN "raised" ELSE "returned"
           /\ ret' = r.value
    /\ UNCHANGED <<arg, sheet, pc, music_data, categorized, page, credentials_exists, output_dir, wall_clock, proc, Browser, Scripts>>

SpecParseTimestamp == InitParseTimestamp /\ [][CallParseTimestamp]_vars

IsDate(c) == \E i \in 1..Len(DateTokens) : DateTokens[i] = c
IsTime(c) == c = "12:00:00"
HasXX(s) == \E i \in 1..(Len(s) - 1) : s[i] = "X" /\ s[i + 1] = "X"
AllBlank(s) == \A i \in 1..Len(s) : s[i] = " "
\* an ISO-8601 timestamp: date, 'T', time, with or without a trailing 'Z'
\* (the date alone is let through as well)
IsIso8601(s) ==
    \/ Len(s) = 1 /\ IsDate(s[1])
    \/ Len(s) = 3 /\ IsDate(s[1]) /\ s[2] = "T" /\ IsTime(s[3])
    \/ Len(s) = 4 /\ IsDate(s[1]) /\ s[2] = "T" /\ IsTime(s[3]) /\ s[4] = "Z"
\* what the parse lets through: any one character between date and time, a
\* date followed by "Z" or "ZZ", and one stray character before the final 'Z'
IsAccepted(s) ==
    \/ Len(s) = 1 /\ IsDate(s[1])
    \/ Len(s) = 3 /\ IsDate(s[1]) /\ s[2] \in SingleChars /\ IsTime(s[3])
    \/ Len(s) = 4 /\ IsDate(s[1]) /\ s[2] \in SingleChars \ {"Z"} /\ IsTime(s[3]) /\ s[4] = "Z"
    \/ Len(s) = 5 /\ IsDate(s[1]) /\ s[2] \in SingleChars \ {"Z"} /\ IsTime(s[3])
                  /\ s[4] \in SingleChars \ {"Z"} /\ s[5] = "Z"
    \/ Len(s) = 2 /\ IsDate(s[1]) /\ s[2] = "Z"
    \/ Len(s) = 3 /\ IsDate(s[1]) /\ s[2] = "Z" /\ s[3] = "Z"
    \/ Len(s) = 4 /\ IsDate(s[1]) /\ s[2] = "Z" /\ s[3] \in SingleChars \ {"Z"} /\ s[4] = "Z"

\* C8 as stated: parse_timestamp never raises, and returns absent for the
\* empty string, a whitespace-only string, every string containing "XX" and
\* every string that is not a valid ISO-8601 timestamp.
C8_AbsentUnlessIso8601 ==
    outcome # "none" =>
        /\ outcome = "returned"
        /\ (arg = <<>> \/ AllBlank(arg) \/ HasXX(arg) \/ ~ IsIso8601(arg)) => ret = None

\* C8 (amended): parse_timestamp never raises, and returns absent for the
\* empty string, a whitespace-only string, every string containing "XX" and
\* every string datetime.fromisoformat rejects; what it accepts is a date, or
\* a date, any single character (not only 'T') and a time with or without a
\* trailing 'Z', or a date followed by "Z" or "ZZ", or such a string with one
\* stray character before its final 'Z'.
C8_AbsentUnlessAccepted ==
    outcome # "none" =>
        /\ outcome = "returned"
        /\ (arg = <<>> \/ AllBlank(arg) \/ HasXX(arg) \/ ~ IsAccepted(arg)) => ret = None

\* a string that is no timestamp at all: the ValueError is caught
C8_WitnessRejected ==
    /\ arg = <<"2024-03-01", "T", "12:00:00", " ">>
    /\ outcome = "returned"
    /\ ret = None

(***************************************************************************)
(* fetch_music_data                                                        *)
(*                                                                         *)
(* A row is the dict of one worksheet record.  The 'Status' key is         *)
(* optional (record.get('Status', 'Open')); the other columns are strings, *)
(* empty when the cell is.                                                 *)
(***************************************************************************)
StatusOpen == <<"O", "p", "e", "n">>

Entry(i, record) ==
    LET apple_link == Strip(record.apple_music_link)
        spotify_link == Strip(record.spotify_link)
        parsed == parse_album_artist(Strip(record.music))
    IN  [id |-> i + 1,
         album |-> parsed[1],
         artist |-> parsed[2],
         apple_link |-> apple_link,
         spotify_link |-> spotify_link,
         status |-> Strip(IF record.status = None THEN StatusOpen ELSE record.status[1]),
         date_added |-> parse_timestamp(Strip(record.date_added)).value,
         date_finished |-> parse_timestamp(Strip(record.date_finished)).value,
         date_added_raw |-> Strip(record.date_added),
         date_finished_raw |-> Strip(record.date_finished),
         rating |-> Strip(record.rating),
         apple_embed |-> get_apple_embed_url(apple_link),
         spotify_embed |-> get_spotify_embed_url(spotify_link)]

\* the loop body: i is the 0-based index enumerate() gives
RowEntries(i, record) ==
    IF Strip(record.apple_music_link) = <<>> /\ Strip(record.spotify_link) = <<>>
    THEN <<>>
    ELSE IF Strip(record.music) = <<>>
         THEN <<>>
         ELSE <<Entry(i, record)>>

\* a plausible slip: a row is skipped as soon as one of its links is missing
RECURSIVE FetchFrom_either_link(_, _)
FetchFrom_either_link(records, i) ==
    IF i >= Len(records) THEN <<>>
    ELSE LET record == records[i + 1]
         IN  (IF \/ Strip(record.apple_music_link) = <<>>
                 \/ Strip(record.spotify_link) = <<>>
                 \/ Strip(record.music) = <<>>
              THEN <<>>
              ELSE <<Entry(i, record)>>)
             \o FetchFrom_either_link(records, i + 1)

\* the loop from index i on
RECURSIVE FetchFrom(_, _)
FetchFrom(records, i) ==
    IF i >= Len(records) THEN <<>>
    ELSE RowEntries(i, records[i + 1]) \o FetchFrom(records, i + 1)

fetch_music_data(records) == FetchFrom(records, 0)

(***************************************************************************)
(* categorize_albums                                                       *)
(***************************************************************************)
StatusCurrent == <<"c", "u", "r", "r", "e", "n", "t">>
BucketLimit == 20

\* a plausible slip: the status is compared without .lower()
BucketOf_case_sensitive(entry) ==
    IF entry.status = StatusCurrent THEN "current_listening"
    ELSE IF entry.date_finished # None THEN "recently_finished"
    ELSE IF entry.date_added # None THEN "recently_added"
    ELSE "dropped"

\* a plausible slip: date_added is tested before date_finished
BucketOf_added_first(entry) ==
    IF Lower(entry.status) = StatusCurrent THEN "current_listening"
    ELSE IF entry.date_added # None THEN "recently_added"
    ELSE IF entry.date_finished # None THEN "recently_finished"
    ELSE "dropped"

\* a plausible change: "active" counts as current
BucketOf_active_too(entry) ==
    IF Lower(entry.status) \in {StatusCurrent, <<"a", "c", "t", "i", "v", "e">>}
    THEN "current_listening"
    ELSE IF entry.date_finished # None THEN "recently_finished"
    ELSE IF entry.date_added # None THEN "recently_added"
    ELSE "dropped"

\* the if/elif chain of the loop
BucketOf(entry) ==
    IF Lower(entry.status) = StatusCurrent THEN "current_listening"
    ELSE IF entry.date_finished # None THEN "recently_finished"
    ELSE IF entry.date_added # None THEN "recently_added"
    ELSE "dropped"

\* the entries the loop appends to one list, in input order
Bucket(data, name) == SelectSeq(data, LAMBDA e : BucketOf(e) = name)

\* datetime comparison raises TypeError between an offset-aware and an
\* offset-naive value; a sort compares some such pair when the list holds both
SortRaises(list, key) ==
    \E i, j \in 1..Len(list) : list[i][key][1].aware # list[j][key][1].aware

KeyOf(e, key) == e[key][1].ord

\* a plausible slip: an unstable order, a later equal element put first
RECURSIVE InsertNewestFirst_unstable(_, _, _)
InsertNewestFirst_unstable(sorted, e, key) ==
    IF sorted = <<>> THEN <<e>>
    ELSE IF KeyOf(Head(sorted), key) > KeyOf(e, key)
         THEN <<Head(sorted)>> \o InsertNewestFirst_unstable(Tail(sorted), e, key)
         ELSE <<e>> \o sorted

\* list.sort(key=..., reverse=True) is stable: e goes behind every element
\* whose key is at least its own
RECURSIVE InsertNewestFirst(_, _, _)
InsertNewestFirst(sorted, e, key) ==
    IF sorted = <<>> THEN <<e>>
    ELSE IF KeyOf(Head(sorted), key) >= KeyOf(e, key)
         THEN <<Head(sorted)>> \o InsertNewestFirst(Tail(sorted), e, key)
         ELSE <<e>> \o sorted

\* the first n elements of list, sorted
RECURSIVE SortPrefix(_, _, _)
SortPrefix(list, n, key) ==
    IF n = 0 THEN <<>>
    ELSE InsertNewestFirst(SortPrefix(list, n - 1, key), list[n], key)

SortedNewestFirst(list, key) == SortPrefix(list, Len(list), key)

\* list[:n]
FirstN(list, n) == SubSeq(list, 1, IF Len(list) < n THEN Len(list) ELSE n)

\* a plausible slip: the lists are cut before they are sorted
categorize_albums_cut_first(data) ==
    LET recently_added == Bucket(data, "recently_added")
        recently_finished == Bucket(data, "recently_finished")
    IN  IF \/ SortRaises(recently_added, "date_added")
           \/ SortRaises(recently_finished, "date_finished")
        THEN [raised |-> TRUE, value |-> NoBuckets]
        ELSE [raised |-> FALSE,
              value |->
                [current_listening |-> Bucket(data, "current_listening"),
                 recently_added |->
                     SortedNewestFirst(FirstN(recently_added, BucketLimit), "date_added"),
                 recently_finished |->
                     SortedNewestFirst(FirstN(recently_finished, BucketLimit),
                                       "date_finished")]]

categorize_albums(data) ==
    LET recently_added == Bucket(data, "recently_added")
        recently_finished == Bucket(data, "recently_finished")
    IN  IF \/ SortRaises(recently_added, "date_added")
           \/ SortRaises(recently_finished, "date_finished")
        THEN [raised |-> TRUE, value |-> NoBuckets]
        ELSE [raised |-> FALSE,
              value |->
                [current_listening |-> Bucket(data, "current_listening"),
                 recently_added |->
                     FirstN(SortedNewestFirst(recently_added, "date_added"), BucketLimit),
                 recently_finished |->
                     FirstN(SortedNewestFirst(recently_finished, "date_finished"),
                            BucketLimit)]]

(***************************************************************************)
(* The renderer: generate_html and the section and card generators.  Of    *)
(* the markup the model keeps the interpolated values; a card also keeps   *)
(* the id of the entry it was made from.                                   *)
(***************************************************************************)
\* strftime('%b %d, %Y'): the calendar day, the time of day is dropped
format_date_display(date_obj) ==
    IF date_obj = None THEN None ELSE Some(date_obj[1].ord \div 2)

\* a plausible slip: the spotlight embed is deferred like the grid embeds
EmbedOf_always_lazy(album, is_current) ==
    IF album.spotify_embed # None /\ album.spotify_embed[1] # <<>>
    THEN [iframe |-> TRUE, attr |-> "data-src", url |-> album.spotify_embed,
          class |-> "lazy-embed", height |-> IF is_current THEN 380 ELSE 152]
    ELSE IF album.apple_embed # None /\ album.apple_embed[1] # <<>>
    THEN [iframe |-> TRUE, attr |-> "data-src", url |-> album.apple_embed,
          class |-> "lazy-embed", height |-> IF is_current THEN 450 ELSE 175]
    ELSE [iframe |-> FALSE, attr |-> "", url |-> None, class |-> "no-embed",
          height |-> 0]

EmbedOf(album, is_current) ==
    LET attr == IF is_current THEN "src" ELSE "data-src"
        class == IF is_current THEN "" ELSE "lazy-embed"
    IN  IF album.spotify_embed # None /\ album.spotify_embed[1] # <<>>
        THEN [iframe |-> TRUE, attr |-> attr, url |-> album.spotify_embed, class |-> class,
              height |-> IF is_current THEN 380 ELSE 152]
        ELSE IF album.apple_embed # None /\ album.apple_embed[1] # <<>>
        THEN [iframe |-> TRUE, attr |-> attr, url |-> album.apple_embed, class |-> class,
              height |-> IF is_current THEN 450 ELSE 175]
        ELSE [iframe |-> FALSE, attr |-> "", url |-> None, class |-> "no-embed",
              height |-> 0]

generate_album_card_html(album, is_current) ==
    [entry_id |-> album.id,
     card_class |-> IF is_current THEN "album-card current-card" ELSE "album-card",
     data_status |-> Lower(album.status),
     album |-> album.album,
     artist |-> album.artist,
     date_display |->
         IF album.date_added # None
         THEN <<"Added">> \o format_date_display(album.date_added)
         ELSE IF album.date_finished # None
              THEN <<"Finished">> \o format_date_display(album.date_finished)
              ELSE <<>>,
     rating_display |-> album.rating,
     embed |-> EmbedOf(album, is_current),
     apple_href |-> album.apple_link,
     spotify_href |-> album.spotify_link]

\* a plausible slip: every current album gets a spotlight card
generate_currently_listening_section_all(current_albums) ==
    [section_id |-> "currently-listening",
     count |-> None,
     empty_section |-> current_albums = <<>>,
     cards |-> [i \in 1..Len(current_albums) |->
                   generate_album_card_html(current_albums[i], TRUE)]]

\* empty_section: the <div class="empty-section"> placeholder stands in for
\* the cards
generate_currently_listening_section(current_albums) ==
    [section_id |-> "currently-listening",
     count |-> None,
     empty_section |-> current_albums = <<>>,
     cards |-> IF current_albums = <<>> THEN <<>>
               ELSE <<generate_album_card_html(current_albums[1], TRUE)>>]

generate_collapsible_section(section_id, albums) ==
    [section_id |-> section_id,
     count |-> IF albums = <<>> THEN None ELSE Some(Len(albums)),
     empty_section |-> albums = <<>>,
     cards |-> [i \in 1..Len(albums) |-> generate_album_card_html(albums[i], FALSE)]]

\* a plausible slip: the total counts the cards shown, one for the spotlight
generate_html_total_of_cards(categorized_data) ==
    LET current_listening == categorized_data.current_listening
        recently_added == categorized_data.recently_added
        recently_finished == categorized_data.recently_finished
    IN  [badges |->
             [current |-> Len(current_listening),
              added |-> Len(recently_added),
              finished |-> Len(recently_finished),
              total |-> Min(Len(current_listening), 1) + Len(recently_added)
                            + Len(recently_finished)],
         currently_listening |-> generate_currently_listening_section(current_listening),
         recently_added |-> generate_collapsible_section("recently-added", recently_added),
         recently_finished |->
             generate_collapsible_section("recently-finished", recently_finished)]

generate_html(categorized_data) ==
    LET current_listening == categorized_data.current_listening
        recently_added == categorized_data.recently_added
        recently_finished == categorized_data.recently_finished
    IN  [badges |->
             [current |-> Len(current_listening),
              added |-> Len(recently_added),
              finished |-> Len(recently_finished),
              total |-> Len(current_listening) + Len(recently_added)
                            + Len(recently_finished)],
         currently_listening |-> generate_currently_listening_section(current_listening),
         recently_added |-> generate_collapsible_section("recently-added", recently_added),
         recently_finished |->
             generate_collapsible_section("recently-finished", recently_finished)]

(***************************************************************************)
(* run(): fetch_music_data, categorize_albums, generate_html, on the       *)
(* worksheet as it is when the run starts.                                 *)
(***************************************************************************)
AppleUrl == AppleOrigin \o <<"/", "a">>
SpotifyUrl == SpotifyOrigin \o <<"/", "album", "/", "a">>
Title == <<"a", " ", EnDash, " ", "b">>
StampZ(d) == <<d, "T", Noon, "Z">>
Placeholder ==
    <<"2", "0", "X", "X", "-", "X", "X", "-", "X", "X", "T",
      "X", "X", ":", "X", "X", ":", "X", "X", "Z">>

Row(apple, spotify, music, status, added, finished) ==
    [apple_music_link |-> apple, spotify_link |-> spotify, music |-> music,
     status |-> status, date_added |-> added, date_finished |-> finished,
     rating |-> <<>>]

Statuses ==
    {None,
     Some(<<"C", "u", "r", "r", "e", "n", "t">>),
     Some(<<"C", "U", "R", "R", "E", "N", "T", " ">>),
     Some(<<"A", "c", "t", "i", "v", "e">>)}

\* (Date Added, Date Finished) of a row
StampPairs ==
    {<<(<<>>), <<>>>>,
     <<Placeholder, <<>>>>,
     <<StampZ("2024-03-01"), <<>>>>,
     <<StampZ("2024-03-02"), <<" ">>>>,
     <<(<<"2024-03-02", "T", Noon>>), <<>>>>,
     <<(<<>>), StampZ("2024-03-01")>>,
     <<(<<>>), <<"2024-03-02", " ", Noon>>>>,
     <<StampZ("2024-03-02"), StampZ("2024-03-01")>>}

RowKinds ==
    {Row(AppleUrl, <<" ">>, Title, st, p[1], p[2]) : st \in Statuses, p \in StampPairs}
    \cup {Row(<<" ">>, <<>>, Title, None, StampZ("2024-03-01"), <<>>),
          Row(<<>>, SpotifyUrl, <<" ">>, None, StampZ("2024-03-01"), <<>>),
          Row(<<>>, SpotifyUrl, <<"a">>, None, <<>>, StampZ("2024-03-02"))}

MaxRows == 2
MaxBulk == 22

\* k rows that all qualify for one timestamp bucket; the dates repeat with
\* the given step, step 0 making all timestamps equal
BulkRows(k, column, step) ==
    [i \in 1..k |->
        LET stamp == StampZ(DateTokens[((i * step) % Len(DateTokens)) + 1])
        IN  IF column = "added"
            THEN Row(AppleUrl, <<>>, Title, None, stamp, <<>>)
            ELSE Row(AppleUrl, <<>>, Title, None, <<>>, stamp)]

BulkSheets ==
    {BulkRows(k, column, step) :
        k \in 1..MaxBulk, column \in {"added", "finished"}, step \in {0, 1, 3}}

Sheets ==
    SeqsUpTo(RowKinds, MaxRows)
    \cup {<<r>> \o b : r \in RowKinds, b \in BulkSheets}

Init ==
    /\ NoBuild
    /\ NoBrowser
    /\ NoScripts
    /\ sheet \in Sheets
    /\ pc = "fetch_music_data"
    /\ music_data = <<>>
    /\ categorized = NoBuckets
    /\ page = NoPage
    /\ arg = <<>>
    /\ outcome = "none"
    /\ ret = <<>>

FetchMusicData ==
    /\ pc = "fetch_music_data"
    /\ music_data' = fetch_music_data(sheet)
    /\ pc' = "categorize_albums"
    /\ UNCHANGED <<arg, outcome, ret, sheet, categorized, page, credentials_exists, output_dir, wall_clock, proc, Browser, Scripts>>

\* an exception leaves run() through its except clause, which re-raises
CategorizeAlbums ==
    /\ pc = "categorize_albums"
    /\ LET r == categorize_albums(music_data)
       IN  /\ categorized' = r.value
           /\ pc' = IF r.raised THEN "failed" ELSE "generate_html"
    /\ UNCHANGED <<arg, outcome, ret, sheet, music_data, page, credentials_exists, output_dir, wall_clock, proc, Browser, Scripts>>

GenerateHtml ==
    /\ pc = "generate_html"
    /\ page' = generate_html(categorized)
    /\ pc' = "done"
    /\ UNCHANGED <<arg, outcome, ret, sheet, music_data, categorized, credentials_exists, output_dir, wall_clock, proc, Browser, Scripts>>

Next == FetchMusicData \/ CategorizeAlbums \/ GenerateHtml

Spec == Init /\ [][Next]_vars

\* categorize_albums has returned
Categorized == pc \in {"generate_html", "done"}
Ids(list) == {list[i].id : i \in 1..Len(list)}
IsCurrent(e) == Lower(e.status) = <<"c", "u", "r", "r", "e", "n", "t">>
Entries == {music_data[i] : i \in 1..Len(music_data)}
\* the entries that qualify for the recently-added and recently-finished lists
QualifyAdded == {e \in Entries : ~ IsCurrent(e) /\ e.date_finished = None /\ e.date_added # None}
QualifyFinished == {e \in Entries : ~ IsCurrent(e) /\ e.date_finished # None}

\* C1: every record whose status is "current" in any case is in the
\* currently-listening list and in no other, whatever its date_added and
\* date_finished are.
C1_CurrentOnlyInCurrent ==
    Categorized =>
        \A e \in Entries :
            IsCurrent(e) =>
                /\ e.id \in Ids(categorized.current_listening)
                /\ e.id \notin Ids(categorized.recently_added)
                /\ e.id \notin Ids(categorized.recently_finished)

\* a record "CURRENT" with both timestamps is in the currently-listening list
C1_WitnessCurrentWithBothStamps ==
    /\ Categorized
    /\ \E e \in Entries :
           /\ e.status = <<"C", "U", "R", "R", "E", "N", "T">>
           /\ e.date_added # None /\ e.date_finished # None
           /\ e.id \in Ids(categorized.current_listening)

\* C2: a record that is not current and has date_finished is a candidate for
\* the recently-finished list only, also when it has date_added; else one
\* with date_added is a candidate for the recently-added list only; else it
\* is in no list.  No record is in two lists.
C2_FinishedBeforeAdded ==
    Categorized =>
        LET A == categorized.current_listening
            B == categorized.recently_added
            C == categorized.recently_finished
        IN  /\ \A e \in Entries :
                   ~ IsCurrent(e) =>
                       /\ e.id \notin Ids(A)
                       /\ e.date_finished # None =>
                              /\ e.id \notin Ids(B)
                              /\ Cardinality(QualifyFinished) <= 20 => e.id \in Ids(C)
                       /\ (e.date_finished = None /\ e.date_added # None) =>
                              /\ e.id \notin Ids(C)
                              /\ Cardinality(QualifyAdded) <= 20 => e.id \in Ids(B)
                       /\ (e.date_finished = None /\ e.date_added = None) =>
                              e.id \notin Ids(B) \cup Ids(C)
            /\ Ids(A) \cap Ids(B) = {} /\ Ids(A) \cap Ids(C) = {} /\ Ids(B) \cap Ids(C) = {}
            /\ Cardinality(Ids(A)) = Len(A)
            /\ Cardinality(Ids(B)) = Len(B)
            /\ Cardinality(Ids(C)) = Len(C)
            /\ Ids(A) \cup Ids(B) \cup Ids(C) \subseteq Ids(music_data)

\* a record with both timestamps that is not current is in the
\* recently-finished list
C2_WitnessBothStamps ==
    /\ Categorized
    /\ \E e \in Entries :
           /\ ~ IsCurrent(e)
           /\ e.date_added # None /\ e.date_finished # None
           /\ e.id \in Ids(categorized.recently_finished)
           /\ e.id \notin Ids(categorized.recently_added)

\* list is newest first by key, equal keys in input order
NewestFirstStable(list, key) ==
    \A i \in 1..(Len(list) - 1) :
        \/ list[i][key][1].ord > list[i + 1][key][1].ord
        \/ /\ list[i][key][1].ord = list[i + 1][key][1].ord
           /\ list[i].id < list[i + 1].id

\* C3: the recently-added and recently-finished lists are each newest first
\* by their own timestamp, records with equal timestamps in input order.
C3_NewestFirstStable ==
    Categorized =>
        /\ NewestFirstStable(categorized.recently_added, "date_added")
        /\ NewestFirstStable(categorized.recently_finished, "date_finished")

\* a list that had to be reordered and holds two equal timestamps
C3_WitnessReorderedWithTie ==
    /\ Categorized
    /\ LET B == categorized.recently_added
       IN  /\ \E i \in 1..(Len(B) - 1) : B[i].id > B[i + 1].id
           /\ \E i \in 1..(Len(B) - 1) : B[i].date_added = B[i + 1].date_added

\* list holds the Min(n, 20) newest of the qualifying entries
NewestKept(list, qualifying, key) ==
    /\ Len(list) = Min(Cardinality(qualifying), 20)
    /\ Ids(list) \subseteq {e.id : e \in qualifying}
    /\ \A e \in qualifying :
           e.id \notin Ids(list) =>
               \A i \in 1..Len(list) : e[key][1].ord <= list[i][key][1].ord
\* the section shows one card per element of list, in the order of list
CardsOf(section, list) ==
    /\ Len(section.cards) = Len(list)
    /\ \A i \in 1..Len(list) : section.cards[i].entry_id = list[i].id

\* C4: with n records qualifying for the recently-added (recently-finished)
\* list, the list returned has exactly min(n, 20) elements, the newest ones,
\* and the section shows exactly that many cards in the same order.
C4_TwentyNewestRendered ==
    /\ Categorized =>
           /\ NewestKept(categorized.recently_added, QualifyAdded, "date_added")
           /\ NewestKept(categorized.recently_finished, QualifyFinished, "date_finished")
    /\ pc = "done" =>
           /\ CardsOf(page.recently_added, categorized.recently_added)
           /\ CardsOf(page.recently_finished, categorized.recently_finished)

\* more than 20 records qualify, 20 cards are shown and a dropped record is
\* older than a shown one that came after it in the worksheet
C4_WitnessTruncated ==
    /\ pc = "done"
    /\ Cardinality(QualifyAdded) > 20
    /\ Len(page.recently_added.cards) = 20
    /\ \E e \in QualifyAdded :
           /\ e.id \notin Ids(categorized.recently_added)
           /\ \E i \in 1..20 :
                  /\ categorized.recently_added[i].id > e.id
                  /\ categorized.recently_added[i].date_added[1].ord > e.date_added[1].ord

\* the rows fetch_music_data keeps: a link and a title, after trimming
KeptRows ==
    {i \in 1..Len(sheet) :
        /\ ~ (AllBlank(sheet[i].apple_music_link) /\ AllBlank(sheet[i].spotify_link))
        /\ ~ AllBlank(sheet[i].music)}

\* C5: fetch_music_data produces no record for a row whose two link fields
\* are both empty after trimming, none for a row whose 'Music' field is empty
\* after trimming, and exactly one for every other row, in row order.
C5_OneRecordPerKeptRow ==
    pc # "fetch_music_data" =>
        /\ Ids(music_data) = KeptRows
        /\ Len(music_data) = Cardinality(KeptRows)
        /\ \A i \in 1..(Len(music_data) - 1) : music_data[i].id < music_data[i + 1].id

\* a row without links and a row without title are skipped, the row after
\* them is kept
C5_WitnessSkipped ==
    /\ pc # "fetch_music_data"
    /\ Len(sheet) = 2
    /\ AllBlank(sheet[1].apple_music_link) /\ AllBlank(sheet[1].spotify_link)
    /\ ~ AllBlank(sheet[1].music)
    /\ Len(music_data) = 1
    /\ music_data[1].id = 2

\* the ids of the cards a section shows
CardIds(section) == {section.cards[i].entry_id : i \in 1..Len(section.cards)}
CurrentIds == {e.id : e \in {x \in Entries : IsCurrent(x)}}

\* C11: the currently-listening list holds every current record, in input
\* order, neither sorted nor cut; the page shows exactly one spotlight card,
\* for the first of them, or the empty-section placeholder and no card when
\* there is none; the current records after the first are shown nowhere.
C11_OneSpotlightCard ==
    /\ Categorized =>
           LET A == categorized.current_listening
           IN  /\ Ids(A) = CurrentIds
               /\ Len(A) = Cardinality(CurrentIds)
               /\ \A i \in 1..(Len(A) - 1) : A[i].id < A[i + 1].id
    /\ pc = "done" =>
           LET A == categorized.current_listening
               spot == page.currently_listening
           IN  /\ A # <<>> =>
                      /\ Len(spot.cards) = 1
                      /\ spot.cards[1].entry_id = A[1].id
                      /\ spot.cards[1].card_class = "album-card current-card"
                      /\ ~ spot.empty_section
               /\ A = <<>> => spot.cards = <<>> /\ spot.empty_section
               /\ \A i \in 2..Len(A) :
                      A[i].id \notin CardIds(spot) \cup CardIds(page.recently_added)
                                      \cup CardIds(page.recently_finished)
               /\ \A i \in 1..Len(page.recently_added.cards) :
                      page.recently_added.cards[i].card_class = "album-card"
               /\ \A i \in 1..Len(page.recently_finished.cards) :
                      page.recently_finished.cards[i].card_class = "album-card"

\* two current records with timestamps: one spotlight card, the second
\* record on no card
C11_WitnessTwoCurrent ==
    /\ pc = "done"
    /\ Len(categorized.current_listening) = 2
    /\ categorized.current_listening[2].date_added # None
    /\ Len(page.currently_listening.cards) = 1
    /\ page.recently_added.cards = <<>>

\* every row gives a record that is current or carries a timestamp
EveryRowInSomeList ==
    /\ KeptRows = 1..Len(sheet)
    /\ \A e \in Entries : IsCurrent(e) \/ e.date_added # None \/ e.date_finished # None
BadgeSum == page.badges.current + page.badges.added + page.badges.finished

\* C12 as stated: 'Total' is the sum of the three section counts, and the
\* three counts sum to the number of input rows where every row is a valid
\* record that lands in a list.
C12_CountsSumToRows ==
    pc = "done" =>
        /\ page.badges.total = BadgeSum
        /\ EveryRowInSomeList => BadgeSum = Len(sheet)

\* C12 (amended): 'Total' is the sum of the three section counts; the three
\* counts sum to the number of input rows where every row is a valid record
\* that lands in a list and at most 20 records qualify for each of the two
\* timestamp lists; the sum never exceeds the number of rows.
C12_CountsSumToRowsUncut ==
    pc = "done" =>
        /\ page.badges.total = BadgeSum
        /\ page.badges.current = Cardinality(CurrentIds)
        /\ page.badges.added = Min(Cardinality(QualifyAdded), BucketLimit)
        /\ page.badges.finished = Min(Cardinality(QualifyFinished), BucketLimit)
        /\ BadgeSum <= Len(sheet)
        /\ (/\ EveryRowInSomeList
            /\ Cardinality(QualifyAdded) <= BucketLimit
            /\ Cardinality(QualifyFinished) <= BucketLimit) => BadgeSum = Len(sheet)

\* a current row and a row with a finished timestamp: the counts 1, 0 and 1
\* sum to the two rows
C12_WitnessAllRowsCounted ==
    /\ pc = "done"
    /\ Len(sheet) = 2
    /\ EveryRowInSomeList
    /\ page.badges.current = 1
    /\ page.badges.finished = 1
    /\ page.badges.total = 2

AllCards(section) == {section.cards[i] : i \in 1..Len(section.cards)}

\* C13: a card with an embed is in one of two variants: the spotlight iframe
\* has 'src', is taller and never has the class 'lazy-embed'; an iframe of the
\* Recently Added / Recently Finished grids has the URL in 'data-src' only,
\* with the class 'lazy-embed'.
C13_EagerSpotlightLazyGrid ==
    pc = "done" =>
        /\ \A c \in AllCards(page.currently_listening) :
               c.embed.iframe =>
                   /\ c.embed.attr = "src"
                   /\ c.embed.class # "lazy-embed"
                   /\ c.embed.height >= 380
                   /\ c.embed.url # None
        /\ \A c \in AllCards(page.recently_added) \cup AllCards(page.recently_finished) :
               c.embed.iframe =>
                   /\ c.embed.attr = "data-src"
                   /\ c.embed.class = "lazy-embed"
                   /\ c.embed.height <= 175
                   /\ c.embed.url # None

\* a page with a spotlight embed and a grid embed
C13_WitnessBothVariants ==
    /\ pc = "done"
    /\ \E c \in AllCards(page.currently_listening) : c.embed.iframe /\ c.embed.attr = "src"
    /\ \E c \in AllCards(page.recently_added) : c.embed.iframe /\ c.embed.attr = "data-src"

IsActive(e) == Lower(e.status) = <<"a", "c", "t", "i", "v", "e">>

\* C14 as stated: a record whose status is "active" in any case is in the
\* currently-listening list, like a record whose status is "current".
C14_ActiveIsCurrent ==
    Categorized =>
        \A e \in Entries : IsActive(e) => e.id \in Ids(categorized.current_listening)

\* C14 (amended): a record whose status is "active" is never in the
\* currently-listening list, only a record whose status is "current" in any
\* case is; an "active" record goes by its timestamps like every other
\* record that is not current.
C14_ActiveIsNotCurrent ==
    Categorized =>
        /\ Ids(categorized.current_listening) = CurrentIds
        /\ \A e \in Entries :
               IsActive(e) =>
                   /\ e.id \notin Ids(categorized.current_listening)
                   /\ e \in QualifyAdded \cup QualifyFinished
                      \/ (e.date_added = None /\ e.date_finished = None)
                   /\ (e \in QualifyFinished /\ Cardinality(QualifyFinished) <= BucketLimit) =>
                          e.id \in Ids(categorized.recently_finished)
                   /\ (e \in QualifyAdded /\ Cardinality(QualifyAdded) <= BucketLimit) =>
                          e.id \in Ids(categorized.recently_added)

\* an "Active" record with an added timestamp is in the recently-added list
C14_WitnessActiveInAdded ==
    /\ Categorized
    /\ \E e \in Entries :
           /\ e.status = <<"A", "c", "t", "i", "v", "e">>
           /\ e.id \in Ids(categorized.recently_added)
           /\ categorized.current_listening = <<>>

\* C15: per-field data never aborts the run: whatever strings the rows hold,
\* also valid timestamps with and without a trailing 'Z' in one list,
\* fetch_music_data followed by categorize_albums completes without raising.
C15_NeverAborts == pc # "failed"

(***************************************************************************)
(* run() as a process: setup_google_sheets, fetch_music_data,              *)
(* categorize_albums, create_output_directory and the four file            *)
(* generators, the except clause that prints and re-raises, and the build  *)
(* folder the invocations share.  Two invocations may overlap.  A stage is *)
(* one step; a file generator is two steps, open(output_file, 'w') and     *)
(* f.write with the close.  The console holds the first line each stage    *)
(* prints and the lines run() itself prints.                               *)
(***************************************************************************)
Runs == {1, 2}
MaxClock == 1

\* the stages of run() in the order of its try block
Stages_directory_first ==
    <<"create_output_directory", "setup_google_sheets", "fetch_music_data",
      "categorize_albums", "generate_html", "generate_css",
      "generate_javascript", "generate_build_readme">>
Stages_css_first ==
    <<"setup_google_sheets", "fetch_music_data", "categorize_albums",
      "create_output_directory", "generate_css", "generate_html",
      "generate_javascript", "generate_build_readme">>
Stages ==
    <<"setup_google_sheets", "fetch_music_data", "categorize_albums",
      "create_output_directory", "generate_html", "generate_css",
      "generate_javascript", "generate_build_readme">>

StageIndex(stage) == CHOOSE i \in 1..Len(Stages) : Stages[i] = stage
IsLastStage(stage) == StageIndex(stage) = Len(Stages)
GeneratorStages ==
    {"generate_html", "generate_css", "generate_javascript", "generate_build_readme"}

\* the file a generator writes
OutputFileOf(stage) ==
    CASE stage = "generate_html" -> "index.html"
      [] stage = "generate_css" -> "styles.css"
      [] stage = "generate_javascript" -> "scripts.js"
      [] stage = "generate_build_readme" -> "README.md"

\* the first line a stage prints
Banner(stage) ==
    CASE stage = "setup_google_sheets" -> "Connecting to Google Sheets..."
      [] stage = "fetch_music_data" -> "Fetching music data..."
      [] stage = "categorize_albums" -> "Categorizing albums..."
      [] stage = "create_output_directory" -> "Creating output directory..."
      [] stage = "generate_html" -> "Generating HTML..."
      [] stage = "generate_css" -> "Generating enhanced CSS..."
      [] stage = "generate_javascript" -> "Generating JavaScript..."
      [] stage = "generate_build_readme" -> "Generating build README..."

\* the text a generator writes; css_content and js_content are fixed texts,
\* html_content and readme_content embed datetime.now()
html_content(categorized_data, now) ==
    [page |-> generate_html(categorized_data), generated |-> now]
css_content == "css_content"
js_content == "js_content"
readme_content(now) == [text |-> "readme_content", generated |-> now]
ContentOf(stage, categorized_data, now) ==
    CASE stage = "generate_html" -> html_content(categorized_data, now)
      [] stage = "generate_css" -> css_content
      [] stage = "generate_javascript" -> js_content
      [] stage = "generate_build_readme" -> readme_content(now)
ReadsClock(stage) == stage \in {"generate_html", "generate_build_readme"}

\* open(output_file, 'w'): the file is created or truncated; nothing makes
\* the call wait for another process that has the file open
open_w_locked(file, r) ==
    [blocked |-> file.state = "empty" /\ file.by # r,
     file |-> [state |-> "empty", text |-> <<>>, by |-> r]]
open_a(file, r) ==
    [blocked |-> FALSE,
     file |-> IF file.state = "absent"
              THEN [state |-> "empty", text |-> <<>>, by |-> r]
              ELSE [file EXCEPT !.by = r]]
open_w(file, r) ==
    [blocked |-> FALSE,
     file |-> [state |-> "empty", text |-> <<>>, by |-> r]]

\* f.write(text) and the close, from this process's offset 0: the file
\* holds the text, or, where bytes of a different text were written to it
\* since this process opened it, possibly an overlay of the two
f_write(file, text, r) ==
    {[state |-> "written", text |-> <<text>>, by |-> r]}
    \cup (IF file.state \in {"written", "torn"} /\ file.text # <<text>>
          THEN {[state |-> "torn", text |-> <<>>, by |-> r]}
          ELSE {})

\* an invocation that has not started
NotStarted ==
    [pc |-> "idle", file_open |-> FALSE, pending |-> <<>>,
     records |-> <<>>, music_data |-> <<>>, categorized_data |-> NoBuckets,
     console |-> <<>>, thrown |-> <<>>, raised |-> <<>>, network |-> 0,
     sequel |-> FALSE,
     wrote |-> [f \in OutputFileSet |-> <<>>]]

\* the except clause of run(): print the diagnostic and re-raise; leaving
\* the with block closes the open file
run_except_swallowed(p, stage, e) ==
    [p EXCEPT !.pc = IF IsLastStage(stage) THEN "done" ELSE Stages[StageIndex(stage) + 1],
              !.console = Append(@, "Build failed"),
              !.file_open = FALSE, !.pending = <<>>]
run_except(p, stage, e) ==
    [p EXCEPT !.pc = "failed",
              !.console = Append(@, "Build failed"),
              !.raised = <<e>>,
              !.file_open = FALSE, !.pending = <<>>]

\* a stage raises e
Raise(p, stage, e) == run_except([p EXCEPT !.thrown = <<e>>], stage, e)

\* a stage returns: the next statement of the try block
Return(p, stage) ==
    IF IsLastStage(stage)
    THEN [p EXCEPT !.pc = "done", !.console = Append(@, "Build Complete!")]
    ELSE [p EXCEPT !.pc = Stages[StageIndex(stage) + 1]]

Enter(p, stage) == [p EXCEPT !.console = Append(@, Banner(stage))]

\* setup_google_sheets: raises before any call to the service when the
\* credentials file is missing; gc.open and get_worksheet are the calls
\* over the network, failing_call the one that fails (0: none)
setup_google_sheets(exists, failing_call) ==
    IF ~ exists
    THEN [raised |-> <<"FileNotFoundError">>, network |-> 0]
    ELSE IF failing_call = 0
         THEN [raised |-> <<>>, network |-> 2]
         ELSE [raised |-> <<"APIError">>, network |-> failing_call]

\* create_output_directory: mkdir(exist_ok=True) of the build folder and of
\* its assets folder; the files copied into the assets folder are none of
\* the output files and are left out
create_output_directory(dir) == [dir EXCEPT !.exists = TRUE, !.assets = TRUE]

\* the worksheets an invocation may find: no row; a current row and a row
\* of each timestamp list; two rows whose timestamps cannot be compared
RunSheets ==
    {<<>>,
     <<Row(AppleUrl, <<>>, Title, Some(<<"C", "u", "r", "r", "e", "n", "t">>), <<>>, <<>>),
       Row(<<>>, SpotifyUrl, Title, None, StampZ("2024-03-01"), <<>>),
       Row(AppleUrl, <<>>, Title, None, <<>>, StampZ("2024-03-02"))>>,
     <<Row(AppleUrl, <<>>, Title, None, <<>>, <<"2024-03-02", " ", Noon>>),
       Row(AppleUrl, <<>>, Title, None, <<>>, StampZ("2024-03-01"))>>}

\* the files an earlier build left
PreviousBuild ==
    LET old == categorize_albums(fetch_music_data(<<>>)).value
        file(text) == [state |-> "written", text |-> <<text>>, by |-> 0]
    IN  [exists |-> TRUE, assets |-> TRUE,
         files |-> [f \in OutputFileSet |->
                       CASE f = "index.html" -> file(html_content(old, 0))
                         [] f = "styles.css" -> file(css_content)
                         [] f = "scripts.js" -> file(js_content)
                         [] f = "README.md" -> file(readme_content(0))]]

InitRun ==
    /\ arg = <<>>
    /\ outcome = "none"
    /\ ret = <<>>
    /\ sheet = <<>>
    /\ pc = "idle"
    /\ music_data = <<>>
    /\ categorized = NoBuckets
    /\ page = NoPage
    /\ credentials_exists \in BOOLEAN
    /\ output_dir \in {NoDir, PreviousBuild}
    /\ wall_clock = 0
    /\ proc = [r \in Runs |-> NotStarted]
    /\ NoBrowser
    /\ NoScripts

Pipeline == <<arg, outcome, ret, sheet, pc, music_data, categorized, page>>

\* the invocations are numbered in the order they start
RunStart(r) ==
    /\ proc[r].pc = "idle"
    /\ \A q \in Runs : q < r => proc[q].pc # "idle"
    /\ proc' = [proc EXCEPT ![r] =
                   [@ EXCEPT !.pc = Stages[1],
                             !.console = <<"Starting Album du Jour Enhanced Build Process...">>,
                             !.sequel = \E q \in Runs : proc[q].pc = "done"]]
    /\ UNCHANGED <<Pipeline, Browser, Scripts, credentials_exists, output_dir, wall_clock>>

RunSetupGoogleSheets(r) ==
    /\ proc[r].pc = "setup_google_sheets"
    /\ \E failing_call \in 0..2 :
           LET p == Enter(proc[r], "setup_google_sheets")
               s == setup_google_sheets(credentials_exists, failing_call)
               q == [p EXCEPT !.network = @ + s.network]
           IN  proc' = [proc EXCEPT ![r] =
                           IF s.raised # <<>>
                           THEN Raise(q, "setup_google_sheets", s.raised[1])
                           ELSE Return(q, "setup_google_sheets")]
    /\ UNCHANGED <<Pipeline, Browser, Scripts, credentials_exists, output_dir, wall_clock>>

\* sheet.get_all_records() is one call over the network
RunFetchMusicData(r) ==
    /\ proc[r].pc = "fetch_music_data"
    /\ \E records \in RunSheets, fails \in BOOLEAN :
           LET p == [Enter(proc[r], "fetch_music_data") EXCEPT !.network = @ + 1]
           IN  proc' = [proc EXCEPT ![r] =
                           IF fails
                           THEN Raise(p, "fetch_music_data", "APIError")
                           ELSE Return([p EXCEPT !.records = records,
                                                 !.music_data = fetch_music_data(records)],
                                       "fetch_music_data")]
    /\ UNCHANGED <<Pipeline, Browser, Scripts, credentials_exists, output_dir, wall_clock>>

RunCategorizeAlbums(r) ==
    /\ proc[r].pc = "categorize_albums"
    /\ LET p == Enter(proc[r], "categorize_albums")
           c == categorize_albums(p.music_data)
       IN  proc' = [proc EXCEPT ![r] =
                       IF c.raised
                       THEN Raise(p, "categorize_albums", "TypeError")
                       ELSE Return([p EXCEPT !.categorized_data = c.value],
                                   "categorize_albums")]
    /\ UNCHANGED <<Pipeline, Browser, Scripts, credentials_exists, output_dir, wall_clock>>

\* an OSError of the first mkdir leaves the folder as it was, one of the
\* second mkdir leaves the build folder created
RunCreateOutputDirectory(r) ==
    /\ proc[r].pc = "create_output_directory"
    /\ \E failing_call \in 0..2 :
           LET p == Enter(proc[r], "create_output_directory")
           IN  /\ output_dir' =
                      CASE failing_call = 0 -> create_output_directory(output_dir)
                        [] failing_call = 1 -> output_dir
                        [] failing_call = 2 -> [output_dir EXCEPT !.exists = TRUE]
               /\ proc' = [proc EXCEPT ![r] =
                              IF failing_call # 0
                              THEN Raise(p, "create_output_directory", "OSError")
                              ELSE Return(p, "create_output_directory")]
    /\ UNCHANGED <<Pipeline, Browser, Scripts, credentials_exists, wall_clock>>

\* the generator builds its text, reading the clock where the text carries
\* the time, and opens the file
RunOpenOutputFile(r) ==
    /\ proc[r].pc \in GeneratorStages
    /\ ~ proc[r].file_open
    /\ LET stage == proc[r].pc
           f == OutputFileOf(stage)
           o == open_w(output_dir.files[f], r)
           p == Enter(proc[r], stage)
       IN  /\ ~ o.blocked
           /\ \E now \in (IF ReadsClock(stage) THEN wall_clock..MaxClock ELSE {wall_clock}),
                 fails \in BOOLEAN :
                  /\ wall_clock' = now
                  /\ IF fails \/ ~ output_dir.exists
                     THEN /\ proc' = [proc EXCEPT ![r] = Raise(p, stage, "OSError")]
                          /\ UNCHANGED output_dir
                     ELSE /\ proc' = [proc EXCEPT ![r] =
                                         [p EXCEPT !.file_open = TRUE,
                                                   !.pending = <<ContentOf(stage, p.categorized_data, now)>>]]
                          /\ output_dir' = [output_dir EXCEPT !.files[f] = o.file]
    /\ UNCHANGED <<Pipeline, Browser, Scripts, credentials_exists>>

RunWriteOutputFile(r) ==
    /\ proc[r].pc \in GeneratorStages
    /\ proc[r].file_open
    /\ LET stage == proc[r].pc
           f == OutputFileOf(stage)
           p == proc[r]
           text == p.pending[1]
       IN  \E fails \in BOOLEAN, file \in f_write(output_dir.files[f], text, r) :
               IF fails
               THEN /\ proc' = [proc EXCEPT ![r] = Raise(p, stage, "OSError")]
                    /\ UNCHANGED output_dir
               ELSE /\ proc' = [proc EXCEPT ![r] =
                                   Return([p EXCEPT !.file_open = FALSE,
                                                    !.pending = <<>>,
                                                    !.wrote[f] = <<text>>], stage)]
                    /\ output_dir' = [output_dir EXCEPT !.files[f] = file]
    /\ UNCHANGED <<Pipeline, Browser, Scripts, credentials_exists, wall_clock>>

NextRun ==
    \E r \in Runs :
        \/ RunStart(r)
        \/ RunSetupGoogleSheets(r)
        \/ RunFetchMusicData(r)
        \/ RunCategorizeAlbums(r)
        \/ RunCreateOutputDirectory(r)
        \/ RunOpenOutputFile(r)
        \/ RunWriteOutputFile(r)

SpecRun == InitRun /\ [][NextRun]_vars

(***************************************************************************)
(* Claims about run()                                                      *)
(***************************************************************************)
HasPrinted(p, line) == \E i \in 1..Len(p.console) : p.console[i] = line

\* setup_google_sheets, fetch_music_data and categorize_albums have returned
Prepared(p) ==
    /\ HasPrinted(p, Banner("setup_google_sheets"))
    /\ HasPrinted(p, Banner("fetch_music_data"))
    /\ HasPrinted(p, Banner("categorize_albums"))
    /\ p.pc \notin {"idle", "setup_google_sheets", "fetch_music_data",
                    "categorize_albums", "failed"}
    /\ p.thrown = <<>>
    /\ p.network = 3
    /\ p.records \in RunSheets
    /\ ~ categorize_albums(fetch_music_data(p.records)).raised
    /\ p.categorized_data = categorize_albums(fetch_music_data(p.records)).value

\* a step of invocation r that creates or modifies the build folder or a
\* file in it
Modifies(r) == proc'[r] # proc[r] /\ output_dir' # output_dir

\* without the credentials file an invocation that has left
\* setup_google_sheets has raised FileNotFoundError there, after no call
\* over the network
FailedWithoutCredentials(p) ==
    /\ p.pc = "failed"
    /\ p.raised = <<"FileNotFoundError">>
    /\ p.network = 0
    /\ p.console = <<"Starting Album du Jour Enhanced Build Process...",
                     Banner("setup_google_sheets"), "Build failed">>

\* C16: the build folder and every output file are created or modified only
\* by an invocation whose setup_google_sheets, fetch_music_data and
\* categorize_albums have all returned; with the credentials file missing
\* the run raises before any call over the network and the build folder
\* stays exactly as it was.
C16_OutputOnlyAfterPreparation ==
    /\ [][\A r \in Runs : Modifies(r) => Prepared(proc[r])]_vars
    /\ [][~ credentials_exists => output_dir' = output_dir]_vars
    /\ [](~ credentials_exists =>
             \A r \in Runs :
                 proc[r].pc \notin {"idle", "setup_google_sheets"} =>
                     FailedWithoutCredentials(proc[r]))

\* the credentials file is missing: the run has failed and the files of the
\* earlier build are all there
C16_WitnessNoCredentials ==
    /\ ~ credentials_exists
    /\ FailedWithoutCredentials(proc[1])
    /\ output_dir = PreviousBuild

StageBanners(k) == [i \in 1..k |-> Banner(Stages[i])]
Count(s, x) == Cardinality({i \in 1..Len(s) : s[i] = x})
Starting == <<"Starting Album du Jour Enhanced Build Process...">>

\* the stage at which a failed invocation raised: the last one it entered
FailedAt(p) == CHOOSE k \in 1..Len(Stages) : p.console[Len(p.console) - 1] = Banner(Stages[k])

\* stage k and the stages after it have had no effect for p
NothingFrom(p, k) ==
    /\ k <= StageIndex("fetch_music_data") => p.records = <<>> /\ p.music_data = <<>>
    /\ k <= StageIndex("categorize_albums") => p.categorized_data = NoBuckets
    /\ \A s \in GeneratorStages : k <= StageIndex(s) => p.wrote[OutputFileOf(s)] = <<>>

\* C17: an exception raised by a stage of run() is never swallowed: run()
\* prints one 'Build failed' line and re-raises the same exception, the
\* stages after the failing one are not executed, and the success line is
\* printed only when every stage has returned.
C17_FailureReRaised ==
    \A r \in Runs :
        LET p == proc[r]
        IN  /\ p.thrown # <<>> => p.pc = "failed"
            /\ p.pc = "failed" =>
                   /\ p.thrown # <<>>
                   /\ p.raised = p.thrown
                   /\ Count(p.console, "Build failed") = 1
                   /\ ~ HasPrinted(p, "Build Complete!")
                   /\ \E k \in 1..Len(Stages) :
                          /\ p.console = Starting \o StageBanners(k) \o <<"Build failed">>
                          /\ NothingFrom(p, k)
            /\ HasPrinted(p, "Build Complete!") =>
                   /\ p.pc = "done"
                   /\ p.console = Starting \o StageBanners(Len(Stages)) \o <<"Build Complete!">>
                   /\ p.thrown = <<>> /\ p.raised = <<>>
                   /\ \A f \in OutputFileSet : p.wrote[f] # <<>>
            /\ p.pc = "done" => HasPrinted(p, "Build Complete!")

\* generate_css raises after index.html was written
C17_WitnessFailedInGenerator ==
    /\ proc[1].pc = "failed"
    /\ proc[1].raised = <<"OSError">>
    /\ FailedAt(proc[1]) = StageIndex("generate_css")
    /\ proc[1].wrote["index.html"] # <<>>

\* a file no invocation has opened: absent, or the file of the earlier build
LeftByEarlierBuild(f) ==
    /\ output_dir.files[f].by = 0
    /\ output_dir.files[f] \in {NoFile, PreviousBuild.files[f]}
Position(f) == CHOOSE i \in 1..Len(OutputFiles) : OutputFiles[i] = f
NewFile(r, f) == [state |-> "written", text |-> proc[r].wrote[f], by |-> r]

\* C18: the files are written one at a time in the order index.html,
\* styles.css, scripts.js, README.md, with no staging and no rollback: after
\* a failure the files written before it stay as written and the files of
\* the later generators stay as the previous run left them.
C18_PartialFileSet ==
    \A r \in Runs :
        LET p == proc[r]
        IN  \* the files p has written are a prefix of the fixed order
            /\ \A i \in 1..(Len(OutputFiles) - 1) :
                   p.wrote[OutputFiles[i + 1]] # <<>> => p.wrote[OutputFiles[i]] # <<>>
            /\ \A s \in GeneratorStages :
                   p.pc = s => \A f \in OutputFileSet :
                                   p.wrote[f] # <<>> <=> Position(f) < Position(OutputFileOf(s))
            /\ p.pc = "failed" =>
                   \A f \in OutputFileSet :
                       \* nothing is rolled back
                       /\ p.wrote[f] # <<>> => output_dir.files[f].by # 0
                       \* alone, the failed run leaves its new files next
                       \* to the old ones; the file of the failing
                       \* generator is old, or empty when f.write failed
                       /\ (\A q \in Runs \ {r} : proc[q].pc = "idle") =>
                              /\ p.wrote[f] # <<>> => output_dir.files[f] = NewFile(r, f)
                              /\ p.wrote[f] = <<>> =>
                                     \/ LeftByEarlierBuild(f)
                                     \/ /\ FailedAt(p) = StageIndex("generate_html") + Position(f) - 1
                                        /\ output_dir.files[f] = [state |-> "empty", text |-> <<>>, by |-> r]
                       \* a file of a later generator was not touched
                       /\ (/\ FailedAt(p) >= StageIndex("generate_html")
                           /\ FailedAt(p) < StageIndex("generate_html") + Position(f) - 1) =>
                              output_dir.files[f].by # r

\* the run fails in generate_javascript: new index.html and styles.css next
\* to the scripts.js and README.md of the earlier build
C18_WitnessHalfWritten ==
    /\ proc[1].pc = "failed"
    /\ proc[2].pc = "idle"
    /\ FailedAt(proc[1]) = StageIndex("generate_javascript")
    /\ proc[1].records # <<>>
    /\ output_dir.files["index.html"] = NewFile(1, "index.html")
    /\ output_dir.files["styles.css"] = NewFile(1, "styles.css")
    /\ output_dir.files["scripts.js"] = PreviousBuild.files["scripts.js"]
    /\ output_dir.files["README.md"] = PreviousBuild.files["README.md"]

BothDone == \A r \in Runs : proc[r].pc = "done"

\* C19: two invocations that overlap take no lock: an invocation at a file
\* generator can always open and write its file, wherever the other
\* invocation is, so that the files of the final state may come from
\* different invocations.
C19_NoLock ==
    \A r \in Runs :
        /\ (proc[r].pc \in GeneratorStages /\ ~ proc[r].file_open) =>
               ENABLED RunOpenOutputFile(r)
        /\ (proc[r].pc \in GeneratorStages /\ proc[r].file_open) =>
               ENABLED RunWriteOutputFile(r)
        /\ BothDone => \A f \in OutputFileSet : output_dir.files[f].by \in Runs

\* both invocations have returned; index.html is the one of the first,
\* scripts.js and README.md are those of the second
C19_WitnessMixedFiles ==
    /\ BothDone
    /\ proc[1].records # proc[2].records
    /\ output_dir.files["index.html"] = NewFile(1, "index.html")
    /\ output_dir.files["scripts.js"] = NewFile(2, "scripts.js")
    /\ output_dir.files["README.md"] = NewFile(2, "README.md")

\* the second invocation started after the first had returned and found
\* the same rows
Rerun == BothDone /\ proc[2].sequel /\ proc[1].records = proc[2].records

\* C20: two successive runs on the same rows give the same three lists, the
\* same styles.css and scripts.js and an index.html that differs at most in
\* the generation time; the second run overwrites all files of the first
\* and depends on nothing the first left.
C20_Idempotent ==
    /\ Rerun =>
           /\ proc[1].categorized_data = proc[2].categorized_data
           /\ proc[1].wrote["styles.css"] = proc[2].wrote["styles.css"]
           /\ proc[1].wrote["scripts.js"] = proc[2].wrote["scripts.js"]
           /\ proc[1].wrote["index.html"][1].page = proc[2].wrote["index.html"][1].page
           /\ \A f \in OutputFileSet : output_dir.files[f] = NewFile(2, f)
    /\ \A r \in Runs :
           proc[r].pc = "done" =>
               LET c == categorize_albums(fetch_music_data(proc[r].records)).value
               IN  /\ proc[r].categorized_data = c
                   /\ proc[r].wrote["index.html"][1].page = generate_html(c)
                   /\ proc[r].wrote["styles.css"] = <<css_content>>
                   /\ proc[r].wrote["scripts.js"] = <<js_content>>

\* a rerun on a sheet with rows, at a later time: only the generation time
\* of index.html differs
C20_WitnessRerunLater ==
    /\ Rerun
    /\ proc[1].records # <<>>
    /\ proc[1].wrote["index.html"][1].generated < proc[2].wrote["index.html"][1].generated
    /\ proc[1].wrote["index.html"][1].page = proc[2].wrote["index.html"][1].page

(***************************************************************************)
(* scripts.js in the browser: class AlbumSections.  The document holds the *)
(* collapsible sections of index.html with their lazy iframes; a visit     *)
(* starts with DOMContentLoaded, which builds AlbumSections; clicks and    *)
(* key presses on a toggle, the 100 ms timers of restoreSectionStates and  *)
(* the callbacks of the IntersectionObserver then run one at a time.       *)
(***************************************************************************)
SectionIds == {"recently-added", "recently-finished"}

\* the <iframe> a card of a grid carries, as generate_album_card_html
\* writes it; 'observed' and 'loads' are not markup: whether the
\* IntersectionObserver observes it, and how often its src was assigned
IframeOf(card) ==
    [present |-> card.embed.iframe,
     src |-> IF card.embed.attr = "src" THEN card.embed.url ELSE None,
     data_src |-> IF card.embed.attr = "data-src" THEN card.embed.url ELSE None,
     lazy_embed |-> card.embed.class = "lazy-embed",
     observed |-> FALSE,
     loads |-> 0]

\* <section class="collapsible-section"> as generate_collapsible_section
\* writes it: the toggle has aria-expanded="false"
SectionMarkup(section) ==
    [aria_expanded |-> "false",
     max_height |-> "",
     iframes |-> [i \in 1..Len(section.cards) |-> IframeOf(section.cards[i])]]

MarkupOf(p, id) ==
    IF id = "recently-added" THEN SectionMarkup(p.recently_added)
    ELSE SectionMarkup(p.recently_finished)

\* the pages served: two Recently Added cards with an Apple and a Spotify
\* embed, two Recently Finished cards, one without embed; and the page of
\* an empty worksheet
PageSheets ==
    {<<>>,
     <<Row(AppleUrl, <<>>, Title, None, StampZ("2024-03-01"), <<>>),
       Row(<<>>, SpotifyUrl, Title, None, StampZ("2024-03-02"), <<>>),
       Row(AppleUrl, <<>>, Title, None, <<>>, StampZ("2024-03-02")),
       Row(<<"x">>, <<>>, Title, None, <<>>, StampZ("2024-03-01"))>>}
Pages == {generate_html(categorize_albums(fetch_music_data(s)).value) : s \in PageSheets}

\* loadEmbed(iframe)
loadEmbed_keeps_data_src(iframe) ==
    IF iframe.data_src # None
    THEN [iframe EXCEPT !.src = iframe.data_src,
                        !.lazy_embed = FALSE,
                        !.loads = @ + 1]
    ELSE iframe
loadEmbed(iframe) ==
    IF iframe.data_src # None
    THEN [iframe EXCEPT !.src = iframe.data_src,
                        !.data_src = None,
                        !.lazy_embed = FALSE,
                        !.loads = @ + 1]
    ELSE iframe

\* loadLazyEmbedsInSection(section): querySelectorAll('.lazy-embed')
loadLazyEmbedsInSection(section) ==
    [section EXCEPT !.iframes =
        [i \in 1..Len(section.iframes) |->
            IF section.iframes[i].present /\ section.iframes[i].lazy_embed
            THEN loadEmbed(section.iframes[i])
            ELSE section.iframes[i]]]

\* String(b) as setAttribute and setItem store a boolean
JsString(b) == IF b THEN "true" ELSE "false"

\* toggleSection(button): the section after the call and the value saved
toggleSection_saves_old_state(section) ==
    LET isExpanded == section.aria_expanded = "true"
        toggled == [section EXCEPT !.aria_expanded = JsString(~ isExpanded)]
    IN  [section |-> IF ~ isExpanded
                     THEN loadLazyEmbedsInSection([toggled EXCEPT !.max_height = "scrollHeight"])
                     ELSE [toggled EXCEPT !.max_height = "0"],
         saved |-> JsString(isExpanded)]
toggleSection(section) ==
    LET isExpanded == section.aria_expanded = "true"
        toggled == [section EXCEPT !.aria_expanded = JsString(~ isExpanded)]
    IN  [section |-> IF ~ isExpanded
                     THEN loadLazyEmbedsInSection([toggled EXCEPT !.max_height = "scrollHeight"])
                     ELSE [toggled EXCEPT !.max_height = "0"],
         saved |-> JsString(~ isExpanded)]

\* restoreSectionStates(): the sections whose saved state is 'true' get a
\* timer
restoreSectionStates(storage) == {id \in SectionIds : storage[id] = Some("true")}

\* initializeLazyLoading(): every .lazy-embed iframe is observed
initializeLazyLoading(section) ==
    [section EXCEPT !.iframes =
        [i \in 1..Len(section.iframes) |->
            [section.iframes[i] EXCEPT !.observed =
                section.iframes[i].present /\ section.iframes[i].lazy_embed]]]

\* a visit that has not begun; 'toggled': toggleSection ran for the section
\* in this visit; 'input': the user has clicked or pressed a key;
\* 'at_load': the value saved when the page loaded; 'left': the state the
\* last visit left the section in, where toggleSection ran in that visit;
\* 'restored': the state the section had when its timer had fired
NoVisit(p) ==
    [page |-> p, loaded |-> FALSE, revisit |-> FALSE, input |-> FALSE,
     toggled |-> [id \in SectionIds |-> FALSE],
     at_load |-> [id \in SectionIds |-> None],
     left |-> [id \in SectionIds |-> None],
     restored |-> [id \in SectionIds |-> None]]

InitPage ==
    /\ arg = <<>>
    /\ outcome = "none"
    /\ ret = <<>>
    /\ sheet = <<>>
    /\ pc = "idle"
    /\ music_data = <<>>
    /\ categorized = NoBuckets
    /\ page = NoPage
    /\ NoBuild
    /\ NoScripts
    /\ document = <<>>
    /\ localStorage = [id \in SectionIds |-> None]
    /\ timers = {}
    /\ visit \in {NoVisit(p) : p \in Pages}

Others == <<arg, outcome, ret, sheet, pc, music_data, categorized, page,
            credentials_exists, output_dir, wall_clock, proc>>

\* the page is loaded, for the first time or again: the document is the
\* markup, the pending timers of the page left are gone, and the
\* constructor of AlbumSections runs
DOMContentLoaded ==
    /\ document' = [id \in SectionIds |-> initializeLazyLoading(MarkupOf(visit.page, id))]
    /\ timers' = restoreSectionStates(localStorage)
    /\ visit' = [visit EXCEPT !.loaded = TRUE,
                              !.revisit = visit.loaded,
                              !.input = FALSE,
                              !.toggled = [id \in SectionIds |-> FALSE],
                              !.at_load = localStorage,
                              !.left = [id \in SectionIds |->
                                           IF visit.loaded /\ visit.toggled[id]
                                           THEN Some(document[id].aria_expanded)
                                           ELSE None],
                              !.restored = [id \in SectionIds |-> None]]
    /\ UNCHANGED <<Others, Scripts, localStorage>>

\* a click on the toggle of a section, or Enter or Space on it (the keydown
\* listener calls toggleSection too and prevents the default)
UserToggle(id) ==
    /\ visit.loaded
    /\ LET t == toggleSection(document[id])
       IN  /\ document' = [document EXCEPT ![id] = t.section]
           /\ localStorage' = [localStorage EXCEPT ![id] = Some(t.saved)]
    /\ visit' = [visit EXCEPT !.input = TRUE, !.toggled[id] = TRUE]
    /\ UNCHANGED <<Others, Scripts, timers>>

\* the callback of setTimeout(..., 100) of restoreSectionStates
TimerFires(id) ==
    /\ visit.loaded
    /\ id \in timers
    /\ timers' = timers \ {id}
    /\ LET t == toggleSection(document[id])
       IN  /\ document' = [document EXCEPT ![id] = t.section]
           /\ localStorage' = [localStorage EXCEPT ![id] = Some(t.saved)]
           /\ visit' = [visit EXCEPT !.toggled[id] = TRUE,
                                     !.restored[id] = Some(t.section.aria_expanded)]
    /\ UNCHANGED <<Others, Scripts>>

\* the IntersectionObserver reports an observed iframe as intersecting
Intersecting(id) ==
    /\ visit.loaded
    /\ \E i \in 1..Len(document[id].iframes) :
           /\ document[id].iframes[i].observed
           /\ document' = [document EXCEPT ![id].iframes[i] =
                              [loadEmbed(document[id].iframes[i]) EXCEPT !.observed = FALSE]]
    /\ UNCHANGED <<Others, Scripts, localStorage, timers, visit>>

\* an iframe that was given a src reports an error: the listener of
\* initializeEmbedErrorHandling replaces the content of its container
EmbedError(id) ==
    /\ visit.loaded
    /\ \E i \in 1..Len(document[id].iframes) :
           /\ document[id].iframes[i].present
           /\ document[id].iframes[i].src # None
           /\ document' = [document EXCEPT ![id].iframes[i].present = FALSE]
    /\ UNCHANGED <<Others, Scripts, localStorage, timers, visit>>

NextPage ==
    \/ DOMContentLoaded
    \/ \E id \in SectionIds : UserToggle(id)
    \/ \E id \in SectionIds : TimerFires(id)
    \/ \E id \in SectionIds : Intersecting(id)
    \/ \E id \in SectionIds : EmbedError(id)

SpecPage == InitPage /\ [][NextPage]_vars

(***************************************************************************)
(* Claims about scripts.js                                                 *)
(***************************************************************************)
\* C21: once toggleSection has run for a section in a visit, the value
\* stored under 'section-<id>' is the section's aria-expanded state; in the
\* next visit, without user input, the section is in the state the last
\* visit left it in once its restore has run.
C21_SavedStateIsState ==
    visit.loaded =>
        \A id \in SectionIds :
            /\ visit.toggled[id] => localStorage[id] = Some(document[id].aria_expanded)
            /\ (/\ visit.revisit
                /\ ~ visit.input
                /\ visit.left[id] # None
                /\ id \notin timers) =>
                   Some(document[id].aria_expanded) = visit.left[id]

\* a section left expanded is expanded again in the next visit, by the
\* timer alone
C21_WitnessRestoredExpanded ==
    /\ visit.loaded
    /\ visit.revisit
    /\ ~ visit.input
    /\ visit.left["recently-added"] = Some("true")
    /\ "recently-added" \notin timers
    /\ document["recently-added"].aria_expanded = "true"
    /\ localStorage["recently-added"] = Some("true")
    /\ localStorage["recently-finished"] = Some("false")

Iframes(id) == {i \in 1..Len(document[id].iframes) : document[id].iframes[i].present}
GridIframes == {<<id, i>> : id \in SectionIds, i \in 1..2}

\* toggleSection expands, or collapses, the section in this step
Expands(id) ==
    /\ document[id].aria_expanded = "false"
    /\ document'[id].aria_expanded = "true"
Collapses(id) ==
    /\ document[id].aria_expanded = "true"
    /\ document'[id].aria_expanded = "false"
    /\ visit'.toggled[id]

\* C24: the src of a grid iframe is set only by loadEmbed, from its
\* data-src, when the observer reports the iframe or when its section is
\* expanded; an expanded section has no lazy iframe left, collapsing
\* changes no iframe, and the src of an iframe is assigned at most once.
C24_LoadedOnceOnDemand ==
    /\ [](visit.loaded =>
             \A id \in SectionIds :
                 /\ \A i \in 1..Len(document[id].iframes) :
                        LET f == document[id].iframes[i]
                        IN  /\ f.loads <= 1
                            /\ f.src # None <=> f.loads = 1
                            /\ f.src # None => f.data_src = None /\ ~ f.lazy_embed
                 /\ document[id].aria_expanded = "true" =>
                        \A i \in Iframes(id) : ~ document[id].iframes[i].lazy_embed)
    /\ [][visit.loaded =>
             \A id \in SectionIds :
                 /\ \A i \in 1..Len(document[id].iframes) :
                        LET f == document[id].iframes[i]
                            g == document'[id].iframes[i]
                        IN  (f.src = None /\ g.src # None) =>
                                /\ g.src = f.data_src
                                /\ Expands(id) \/ (f.observed /\ ~ g.observed)
                 /\ Expands(id) =>
                        \A i \in Iframes(id) :
                            document[id].iframes[i].lazy_embed =>
                                document'[id].iframes[i].src = document[id].iframes[i].data_src
                 /\ Collapses(id) => document'[id].iframes = document[id].iframes]_vars

\* an iframe loaded by the expansion of its section; the observer has
\* reported it afterwards and the section was collapsed again
C24_WitnessSecondLoadNoOp ==
    /\ visit.loaded
    /\ document["recently-added"].aria_expanded = "false"
    /\ Len(document["recently-added"].iframes) = 2
    /\ document["recently-added"].iframes[1].loads = 1
    /\ ~ document["recently-added"].iframes[1].observed
    /\ document["recently-added"].iframes[2].observed
    /\ document["recently-added"].iframes[2].src # None

\* C25: a section whose saved state is 'true' when the page loads is
\* expanded (and saved as 'true', the value toggleSection saves being the
\* state it sets) when its restore timer has fired, whatever clicks on its
\* toggle came before the timer.
C25_RestoreExpands ==
    visit.loaded =>
        \A id \in SectionIds :
            (visit.at_load[id] = Some("true") /\ visit.restored[id] # None) =>
                visit.restored[id] = Some("true")

(***************************************************************************)
(* musickit/test-music-api.py: get_library_music(), the paginated export   *)
(* of the library to a CSV file.  One step reads the token files and opens *)
(* the file; every further step is one pass of the while loop: a request   *)
(* and the rows of its page; the last step prints the totals.              *)
(***************************************************************************)
Limit == 100
MaxPages == 2
MaxPageItems == 2

\* an item of a page: 'artistName' and the catalog URL may be missing
ApiItems ==
    {[name |-> "A", artist |-> Some("artist"), url |-> Some("url")],
     [name |-> "B", artist |-> Some("artist"), url |-> None],
     [name |-> "P", artist |-> None, url |-> None]}
ArtistOf(item) == IF item.artist = None THEN "Unknown Artist" ELSE item.artist[1]
LinkOf(item) == IF item.url = None THEN "No URL Available" ELSE item.url[1]

\* what requests.get gives: a response with a status and the items of
\* 'data', or a RequestException
ApiPages == SeqsUpTo(ApiItems, MaxPageItems)
Responses ==
    [kind : {"response"}, status_code : {200}, data : ApiPages]
    \cup {[kind |-> "response", status_code |-> 500, data |-> <<>>],
          [kind |-> "RequestException", status_code |-> 0, data |-> <<>>]}
EndsLoop(resp) == resp.kind # "response" \/ resp.status_code # 200 \/ resp.data = <<>>

\* writer.writerow of the loop body, for the items that have an artist
CsvRow(item) ==
    [Album |-> item.name, Artist |-> ArtistOf(item), Link |-> LinkOf(item)]
RECURSIVE CsvRows(_)
CsvRows(items) ==
    IF items = <<>> THEN <<>>
    ELSE (IF ArtistOf(Head(items)) = "Unknown Artist" THEN <<>> ELSE <<CsvRow(Head(items))>>)
         \o CsvRows(Tail(items))

\* offset += limit
NextOffset_by_page_size(offset, items) == offset + Len(items)
NextOffset(offset, items) == offset + Limit

NotExporting(tokens) ==
    [pc |-> "start", tokens |-> tokens, offset |-> 0, requests |-> <<>>,
     responses |-> <<>>, csv |-> [exists |-> FALSE, rows |-> <<>>],
     all_items |-> 0, console |-> <<>>]

InitExport ==
    /\ arg = <<>>
    /\ outcome = "none"
    /\ ret = <<>>
    /\ sheet = <<>>
    /\ pc = "idle"
    /\ music_data = <<>>
    /\ categorized = NoBuckets
    /\ page = NoPage
    /\ NoBuild
    /\ NoBrowser
    /\ sheet_update = <<>>
    /\ library_export \in {NotExporting(t) : t \in BOOLEAN}

\* the token files are read and the CSV file is opened with its header; a
\* missing token file ends the function in its except clause
ExportStart ==
    /\ library_export.pc = "start"
    /\ library_export' =
           IF ~ library_export.tokens
           THEN [library_export EXCEPT !.pc = "done",
                                       !.console = <<"Error: Could not find token file">>]
           ELSE [library_export EXCEPT !.pc = "loop",
                                       !.console = <<"Fetching complete library music...">>,
                                       !.csv = [exists |-> TRUE, rows |-> <<>>]]
    /\ UNCHANGED <<Others, Browser, sheet_update>>

\* the service answers what it likes, but not more than MaxPages pages
\* with items
Answers ==
    IF Len(library_export.requests) < MaxPages THEN Responses
    ELSE {resp \in Responses : EndsLoop(resp)}

\* one pass of 'while True'
ExportPage ==
    /\ library_export.pc = "loop"
    /\ \E resp \in Answers :
           LET e == [library_export EXCEPT
                        !.requests = Append(@, [limit |-> Limit, offset |-> library_export.offset]),
                        !.responses = Append(@, resp)]
           IN  library_export' =
                   CASE resp.kind = "RequestException" ->
                            [e EXCEPT !.pc = "done",
                                      !.console = Append(@, "Error making request")]
                     [] resp.kind = "response" /\ resp.status_code # 200 ->
                            [e EXCEPT !.pc = "totals",
                                      !.console = @ \o <<"Error: status_code", "Response: text">>]
                     [] resp.kind = "response" /\ resp.status_code = 200 /\ resp.data = <<>> ->
                            [e EXCEPT !.pc = "totals"]
                     [] OTHER ->
                            [e EXCEPT !.csv.rows = @ \o CsvRows(resp.data),
                                      !.all_items = @ + Len(CsvRows(resp.data)),
                                      !.offset = NextOffset(@, resp.data),
                                      !.console = Append(@, "Fetched albums so far...")]
    /\ UNCHANGED <<Others, Browser, sheet_update>>

\* after the loop, still in the with block
ExportTotals ==
    /\ library_export.pc = "totals"
    /\ library_export' =
           [library_export EXCEPT !.pc = "done",
                                  !.console = @ \o <<"Total albums fetched", "Output written to output_file">>]
    /\ UNCHANGED <<Others, Browser, sheet_update>>

NextExport == ExportStart \/ ExportPage \/ ExportTotals

\* the interpreter runs the script on
SpecExport == InitExport /\ [][NextExport]_vars /\ WF_vars(NextExport)

(***************************************************************************)
(* Claims about get_library_music                                          *)
(***************************************************************************)
Printed(line) == \E i \in 1..Len(library_export.console) : library_export.console[i] = line
LastResponse == library_export.responses[Len(library_export.responses)]
RECURSIVE RowsOfPages(_)
RowsOfPages(pages) ==
    IF pages = <<>> THEN <<>>
    ELSE RowsOfPages(SubSeq(pages, 1, Len(pages) - 1)) \o CsvRows(pages[Len(pages)].data)

\* C22: when a request returns a non-200 response the run is fatal: a
\* diagnostic is printed and no partial output is kept as a valid result,
\* also when rows of earlier pages have been written.
C22_NonSuccessIsFatal ==
    (/\ library_export.pc = "done"
     /\ library_export.responses # <<>>
     /\ LastResponse.kind = "response"
     /\ LastResponse.status_code # 200) =>
        /\ Printed("Error: status_code")
        /\ library_export.csv.rows = <<>> \/ ~ Printed("Output written to output_file")

\* C23: the requests use limit 100 and the offsets 0, 100, 200, ..., the
\* offset growing by the limit after every page with items; the loop stops
\* at the first response that is not 200 or has no items, so that the
\* function ends when the service gives such a response; the file then has
\* one row, in page order, for every item with an artist of the pages
\* before.
C23_Pagination ==
    /\ [](library_export.pc # "start" =>
             LET e == library_export
                 n == Len(e.responses)
             IN  /\ Len(e.requests) = n
                 /\ \A k \in 1..n : e.requests[k] = [limit |-> 100, offset |-> 100 * (k - 1)]
                 /\ \A k \in 1..(n - 1) : ~ EndsLoop(e.responses[k])
                 /\ e.pc = "loop" => (\A k \in 1..n : ~ EndsLoop(e.responses[k])) /\ e.offset = 100 * n
                 /\ (e.pc \in {"totals", "done"} /\ e.tokens) => n >= 1 /\ EndsLoop(e.responses[n])
                 /\ e.csv.rows = RowsOfPages(SubSeq(e.responses, 1, IF e.pc = "loop" THEN n ELSE n - 1))
                 /\ e.all_items = Len(e.csv.rows))
    /\ <>(library_export.pc = "done")

\* two pages with items, of different sizes, one item without artist, then
\* a page without items
C23_WitnessThreeRequests ==
    /\ library_export.pc = "done"
    /\ Len(library_export.requests) = 3
    /\ library_export.requests[3].offset = 200
    /\ Len(library_export.responses[1].data) = 2
    /\ Len(library_export.responses[2].data) = 1
    /\ library_export.responses[1].data[1].artist = None
    /\ LastResponse.status_code = 200
    /\ Len(library_export.csv.rows) = 2

(***************************************************************************)
(* musickit/v1_apple-music-updates.py: update_music_sheet(), which appends *)
(* the recently added albums of the library to the first worksheet.  The   *)
(* script is run again and again against the same answer of the service.   *)
(***************************************************************************)
MaxUpdates == 2

\* 'Music': f"{name} - {artist}"
MusicOf(item) == <<item.name, " - ", ArtistOf(item)>>
new_entry(item) == [Music |-> MusicOf(item), Link |-> LinkOf(item), Status |-> "Open"]

\* the rows the loop collects, given the Link column read before the loop
RECURSIVE new_entries(_, _)
new_entries(items, existing_urls) ==
    IF items = <<>> THEN <<>>
    ELSE LET item == Head(items)
             skip == \/ ArtistOf(item) = "Unknown Artist"
                     \/ item.url # None /\ item.url[1] \in existing_urls
         IN  (IF skip THEN <<>> ELSE <<new_entry(item)>>)
             \o new_entries(Tail(items), existing_urls)

\* the answers of requests.get: 200 with the recently added items, or not
RecentlyAdded ==
    [status_code : {200}, data : ApiPages] \cup {[status_code |-> 500, data |-> <<>>]}

\* the worksheet before the first run: no rows, or the row of an album
Worksheets == {<<>>, <<new_entry(CHOOSE item \in ApiItems : item.url # None)>>}

InitUpdate ==
    /\ arg = <<>>
    /\ outcome = "none"
    /\ ret = <<>>
    /\ sheet = <<>>
    /\ pc = "idle"
    /\ music_data = <<>>
    /\ categorized = NoBuckets
    /\ page = NoPage
    /\ NoBuild
    /\ NoBrowser
    /\ library_export = <<>>
    /\ sheet_update \in
           {[pc |-> "idle", runs |-> 0, api |-> resp, response |-> None,
             worksheet |-> w, appended |-> <<>>, console |-> <<>>] :
                resp \in RecentlyAdded, w \in Worksheets}

\* the connection to the worksheet, the tokens and the request
UpdateRequest ==
    /\ sheet_update.pc = "idle"
    /\ sheet_update.runs < MaxUpdates
    /\ sheet_update' = [sheet_update EXCEPT !.pc = "answered",
                                            !.runs = @ + 1,
                                            !.response = Some(sheet_update.api),
                                            !.appended = <<>>,
                                            !.console = <<>>]
    /\ UNCHANGED <<Others, Browser, library_export>>

\* the rest of the function, from the test of the status code
UpdateSheet ==
    /\ sheet_update.pc = "answered"
    /\ LET response == sheet_update.response[1]
           existing_data == sheet_update.worksheet
           existing_urls == {existing_data[i].Link : i \in 1..Len(existing_data)}
           entries == new_entries(response.data, existing_urls)
       IN  sheet_update' =
               CASE response.status_code # 200 ->
                        [sheet_update EXCEPT !.pc = "idle",
                                             !.console = <<"Error: status_code", "Response: text">>]
                 [] response.status_code = 200 /\ response.data = <<>> ->
                        [sheet_update EXCEPT !.pc = "idle",
                                             !.console = <<"No recently added music found.">>]
                 [] OTHER ->
                        [sheet_update EXCEPT !.pc = "idle",
                                             !.worksheet = @ \o entries,
                                             !.appended = entries,
                                             !.console = IF entries = <<>>
                                                         THEN <<"No new albums to add.">>
                                                         ELSE <<"Added new albums to the sheet.">>]
    /\ UNCHANGED <<Others, Browser, library_export>>

NextUpdate == UpdateRequest \/ UpdateSheet

SpecUpdate == InitUpdate /\ [][NextUpdate]_vars

\* C26: update_music_sheet never appends an album that is already in the
\* sheet: whatever the number of runs against the same answer, every album
\* has at most one row, also for items without a catalog URL and for two
\* items of the same album in one answer.
C26_OneRowPerAlbum ==
    \A i, j \in 1..Len(sheet_update.worksheet) :
        sheet_update.worksheet[i].Music = sheet_update.worksheet[j].Music => i = j

\* C27: every card of a timestamp section shows in its date label the
\* timestamp the section is sorted by: 'Added: <date_added>' in Recently
\* Added and 'Finished: <date_finished>' in Recently Finished, also for a
\* record that has both timestamps.
C27_LabelIsSortKey ==
    pc = "done" =>
        /\ \A i \in 1..Len(page.recently_added.cards) :
               page.recently_added.cards[i].date_display =
                   <<"Added">> \o format_date_display(categorized.recently_added[i].date_added)
        /\ \A i \in 1..Len(page.recently_finished.cards) :
               page.recently_finished.cards[i].date_display =
                   <<"Finished">> \o format_date_display(categorized.recently_finished[i].date_finished)

\* what stands between "/embed/" and "?utm_source=generator" in an embed URL
EmbedMiddle(url) == SubSeq(url, Len(SpotifyEmbedPrefix) + 1, Len(url) - Len(UtmSuffix))

\* C28: every Spotify embed URL that get_spotify_embed_url returns has a
\* non-empty content type and a non-empty content id between "/embed/" and
\* "?utm_source=generator", whatever the link: a trailing slash, an empty
\* path segment or a '?' right after a slash included.
C28_TypeAndIdNonEmpty ==
    (outcome = "returned" /\ ret # None) =>
        LET middle == EmbedMiddle(ret[1])
        IN  /\ middle # <<>>
            /\ middle[1] # "/"
            /\ middle[Len(middle)] # "/"

====
